---- MODULE Spec2Model ----
(***************************************************************************)
(* A model of the context tree of codex-rs/context-files (tree.rs,         *)
(* node.rs), its persistence (tree_storage.rs), the folder ingestion of    *)
(* the agent (agent.rs) and the app-server handler that drives them        *)
(* (context_handler.rs).                                                   *)
(*                                                                         *)
(* Node ids are UUIDs in the source; here they are the naturals handed out *)
(* by the counter next_id, so that every constructed node has a fresh id.  *)
(***************************************************************************)
EXTENDS Naturals, Integers, Sequences, FiniteSets, TLC

VARIABLES
    tree,       \* ContextTree: [nodes, root_id, domain_index, path_index]
    next_id,    \* the next fresh node id (uuid::Uuid::new_v4)
    last_op,    \* the last public operation applied and its outcome
    config,     \* AgentConfig of the ContextAgent
    steps,      \* number of bounded operations applied so far
    tree_json,  \* content of <base>/tree.json
    tree_json_bak, \* content of <base>/tree.json.bak
    saved_tree, \* the tree handed to the save that wrote tree_json, if any
    phase,      \* "building", "writing" (inside fs::write), "running", "stopped", "loaded"
    pc,         \* for every request task of the handler, where it stands
    req,        \* for every task, the request it serves
    res,        \* for every task, the ProcessResult of its process_folder
    writer,     \* the task that holds the write guard of the agent's RwLock
    readers,    \* the tasks that hold a read guard of the agent's RwLock
    notifications, \* the server notifications sent so far, oldest first
    walk,       \* the call of get_ancestry in progress: its loop and its locals
    cache,      \* EmbeddingCache.cache: key -> CacheEntry
    cache_path, \* EmbeddingCache.cache_path
    max_entries, \* EmbeddingCache.max_entries
    cache_file, \* the entries stored in the file at cache_path, if any
    now,        \* the system time in seconds
    cache_op,   \* the last call on the cache and the map it found
    configs,    \* DirectoryWatcher.configs: path -> DirectoryConfig
    configs_lock, \* the RwLock around configs: who holds a guard
    watcher,    \* DirectoryWatcher.watcher: the paths registered with notify, if Some
    running,    \* DirectoryWatcher.running
    channel,    \* the events in the mpsc channel, oldest first
    cb,         \* the notify callback: where it stands and the paths left to handle
    api,        \* the call on the DirectoryWatcher in progress
    batch,      \* EventBatch.events
    batch_op,   \* the last call on the batch, with the events it found
    states,     \* SyncManager.states: concept -> SyncState
    states_lock, \* the RwLock around states: the functions that hold a write guard
    conflict_strategy, \* SyncManager.conflict_strategy
    store,      \* the ContextStore: concept -> content of its context file
    sync,       \* the call of process_event in progress
    ages        \* for the nodes the optimizer prunes: last_updated and access_count

treeVars == <<tree, next_id, last_op>>
agentVars == <<config, steps>>
storeVars == <<tree_json, tree_json_bak, saved_tree, phase>>
handlerVars == <<pc, req, res, writer, readers, notifications>>
walkVars == <<walk>>
cacheVars == <<cache, cache_path, max_entries, cache_file, now, cache_op>>
watcherVars == <<configs, configs_lock, watcher, running, channel, cb, api>>
batchVars == <<batch, batch_op>>
syncVars == <<states, states_lock, conflict_strategy, store, sync>>
ageVars == <<ages>>
extraVars == <<batchVars, syncVars, ageVars>>
sideVars == <<walkVars, cacheVars, watcherVars, extraVars>>
coreVars == <<treeVars, agentVars, storeVars, handlerVars>>
vars == <<tree, next_id, last_op, config, steps, tree_json, tree_json_bak, saved_tree, phase,
          pc, req, res, writer, readers, notifications, walk, cache, cache_path,
          max_entries, cache_file, now, cache_op, configs, configs_lock, watcher, running,
          channel, cb, api, batch, batch_op, states, states_lock, conflict_strategy, store,
          sync, ages>>

----------------------------------------------------------------------------
(* Bounds *)

\* An operation that constructs nodes starts only while next_id <= MaxNodes.
MaxNodes == 3

\* Largest number of operations applied to the agent in one behaviour.
MaxSteps == 3

\* Number of requests the handler serves, each on a task of its own.
NumTasks == 2

----------------------------------------------------------------------------
(* Values *)

NoId == 0
NoPath == "nopath"

\* EmbeddingCache: no key, the empty map, no file at cache_path, a cache_path
NoKey == <<>>
EmptyCache == [k \in {} |-> NoKey]
NoFile == [exists |-> FALSE, entries |-> {}]
CachePath == "cache.json"

\* str::to_lowercase on the names the model uses.
to_lowercase(s) ==
    CASE s = "Coding" -> "coding"
      [] s = "Other" -> "other"
      [] OTHER -> s

\* HashMap::insert and HashMap::remove on maps kept as functions.
MapInsert(m, k, v) == [x \in (DOMAIN m) \cup {k} |-> IF x = k THEN v ELSE m[x]]
MapRemove(m, k) == [x \in (DOMAIN m) \ {k} |-> m[x]]
EmptyMap == [x \in {} |-> NoId]

\* Vec::retain(|c| c != id)
RECURSIVE Retain(_, _)
Retain(s, id) ==
    IF s = <<>> THEN <<>>
    ELSE IF Head(s) = id THEN Retain(Tail(s), id)
    ELSE <<Head(s)>> \o Retain(Tail(s), id)

SeqContains(s, x) == \E i \in 1..Len(s) : s[i] = x

\* All orders in which the elements of a finite set can be iterated.
Orders(S) ==
    {s \in [1..Cardinality(S) -> S] : \A x \in S : \E i \in 1..Cardinality(S) : s[i] = x}

----------------------------------------------------------------------------
(* node.rs: ContextNode and its constructors *)

ContextNode_new(id, node_type, name) ==
    [id |-> id, node_type |-> node_type, name |-> name, path |-> NoPath,
     depth |-> 0, summary |-> "", parent_id |-> NoId, children |-> <<>>,
     entities |-> <<>>, related_nodes |-> <<>>]

root(id) == ContextNode_new(id, "Root", "User Knowledge")
domain(id, name) == [ContextNode_new(id, "Domain", name) EXCEPT !.depth = 1]
category(id, name) == [ContextNode_new(id, "Category", name) EXCEPT !.depth = 2]
project(id, name, path) ==
    [ContextNode_new(id, "Project", name) EXCEPT !.path = path, !.depth = 3]
document(id, name, path) == [ContextNode_new(id, "Document", name) EXCEPT !.path = path]
file_reference(id, name, path) ==
    [ContextNode_new(id, "FileReference", name) EXCEPT !.path = path]
with_parent(node, parent_id) == [node EXCEPT !.parent_id = parent_id]

----------------------------------------------------------------------------
(* tree.rs: ContextTree *)

\* ContextTree::new with the root's id
new(id) ==
    [nodes |-> [x \in {id} |-> root(id)], root_id |-> id,
     domain_index |-> EmptyMap, path_index |-> EmptyMap]

has_valid_root(t) == t.root_id \in DOMAIN t.nodes

ensure_root(t, id) ==
    IF t.root_id \notin DOMAIN t.nodes
    THEN [t EXCEPT !.root_id = id, !.nodes = MapInsert(t.nodes, id, root(id))]
    ELSE t

\* get_by_path: the node id found, NoId for None
get_by_path(t, path) ==
    IF path \in DOMAIN t.path_index /\ t.path_index[path] \in DOMAIN t.nodes
    THEN t.path_index[path] ELSE NoId

insert_path_index(t, node) ==
    IF node.path # NoPath THEN MapInsert(t.path_index, node.path, node.id)
    ELSE t.path_index

insert_domain_index(t, node) ==
    IF node.node_type = "Domain"
    THEN MapInsert(t.domain_index, to_lowercase(node.name), node.id)
    ELSE t.domain_index

insert(t, node) ==
    [t EXCEPT !.path_index = insert_path_index(t, node),
              !.domain_index = insert_domain_index(t, node),
              !.nodes = MapInsert(t.nodes, node.id, node)]

\* remove that leaves the children of the parent as they are
remove_from_parent_kept(nodes, node) == nodes

remove_from_parent(nodes, node) ==
    IF node.parent_id # NoId /\ node.parent_id \in DOMAIN nodes
    THEN [nodes EXCEPT ![node.parent_id].children = Retain(@, node.id)]
    ELSE nodes

\* remove that leaves the path index as it is
remove_path_index_stale(t, node) == t.path_index

remove_path_index(t, node) ==
    IF node.path # NoPath THEN MapRemove(t.path_index, node.path) ELSE t.path_index

remove_domain_index(t, node) ==
    IF node.node_type = "Domain"
    THEN MapRemove(t.domain_index, to_lowercase(node.name))
    ELSE t.domain_index

remove(t, id) ==
    IF id \notin DOMAIN t.nodes THEN t
    ELSE LET node == t.nodes[id] IN
         [t EXCEPT !.nodes = remove_from_parent(MapRemove(t.nodes, id), node),
                   !.path_index = remove_path_index(t, node),
                   !.domain_index = remove_domain_index(t, node)]

\* ensure_domain: the tree afterwards, the domain's id, and the next fresh id
ensure_domain(t, name, nid) ==
    LET domain_lower == to_lowercase(name) IN
    IF domain_lower \in DOMAIN t.domain_index
    THEN [tree |-> t, id |-> t.domain_index[domain_lower], nid |-> nid]
    ELSE LET domain_node == with_parent(domain(nid, name), t.root_id)
             nodes1 == IF t.root_id \in DOMAIN t.nodes
                       THEN [t.nodes EXCEPT ![t.root_id].children = Append(@, nid)]
                       ELSE t.nodes
         IN [tree |-> [t EXCEPT !.domain_index = MapInsert(@, domain_lower, nid),
                                !.nodes = MapInsert(nodes1, nid, domain_node)],
             id |-> nid, nid |-> nid + 1]

get_domain(t, name) ==
    IF to_lowercase(name) \in DOMAIN t.domain_index
       /\ t.domain_index[to_lowercase(name)] \in DOMAIN t.nodes
    THEN t.domain_index[to_lowercase(name)] ELSE NoId

list_domains(t) == DOMAIN t.domain_index

\* get_ancestry, as the sequence of node ids from the topmost node reached
\* down to node_id. The loop of the source ends at a missing node or at a
\* node without parent; fuel cuts the evaluation off on a parent cycle.
RECURSIVE ancestry_up(_, _, _)
ancestry_up(t, id, fuel) ==
    IF id = NoId \/ id \notin DOMAIN t.nodes \/ fuel = 0 THEN <<>>
    ELSE ancestry_up(t, t.nodes[id].parent_id, fuel - 1) \o <<id>>

get_ancestry(t, node_id) == ancestry_up(t, node_id, Cardinality(DOMAIN t.nodes) + 1)

\* ancestry.reverse()
reverse(s) == [i \in 1..Len(s) |-> s[Len(s) + 1 - i]]

\* The ancestry vector is recorded up to WalkCap entries; a loop that pushes
\* more keeps running with the recorded part unchanged.
WalkCap == MaxNodes + 1

\* No call of get_ancestry is in progress.
NoWalk == [pc |-> "idle", node_id |-> NoId, current_id |-> NoId, ancestry |-> <<>>]

\* get_ancestry(node_id) up to the while loop: ancestry is empty and
\* current_id is Some(node_id).
walk_start(node_id) ==
    [pc |-> "loop", node_id |-> node_id, current_id |-> node_id, ancestry |-> <<>>]

\* One evaluation of the condition of the while loop of get_ancestry and, if
\* it holds, of the body; leaving the loop reverses the vector and returns.
walk_step(t, w) ==
    IF w.current_id # NoId /\ w.current_id \in DOMAIN t.nodes
    THEN [w EXCEPT !.ancestry = IF Len(@) < WalkCap THEN Append(@, w.current_id) ELSE @,
                   !.current_id = t.nodes[w.current_id].parent_id]
    ELSE [w EXCEPT !.pc = "done", !.ancestry = reverse(@)]

\* add_child: ok is FALSE for the error return (parent not found)
add_child(t, parent_id, child) ==
    IF parent_id \notin DOMAIN t.nodes
    THEN [ok |-> FALSE, tree |-> t, id |-> NoId, error |-> "InvalidFormat"]
    ELSE LET child1 == [child EXCEPT !.parent_id = parent_id,
                                     !.depth = t.nodes[parent_id].depth + 1]
             t1 == insert(t, child1)
             t2 == IF parent_id \in DOMAIN t1.nodes
                   THEN [t1 EXCEPT !.nodes[parent_id].children = Append(@, child.id)]
                   ELSE t1
         IN [ok |-> TRUE, tree |-> t2, id |-> child.id, error |-> "none"]

\* ensure_category: ok is FALSE when add_child fails
RECURSIVE find_category(_, _, _)
find_category(t, children, name) ==
    IF children = <<>> THEN NoId
    ELSE IF Head(children) \in DOMAIN t.nodes
            /\ t.nodes[Head(children)].node_type = "Category"
            /\ to_lowercase(t.nodes[Head(children)].name) = to_lowercase(name)
         THEN Head(children)
         ELSE find_category(t, Tail(children), name)

ensure_category(t, domain_id, name, nid) ==
    LET found == IF domain_id \in DOMAIN t.nodes
                 THEN find_category(t, t.nodes[domain_id].children, name)
                 ELSE NoId
    IN IF found # NoId
       THEN [ok |-> TRUE, tree |-> t, id |-> found, nid |-> nid]
       ELSE LET r == add_child(t, domain_id, category(nid, name))
            IN [ok |-> r.ok, tree |-> r.tree, id |-> r.id, nid |-> nid + 1]

\* DomainDetection: the domain name and the subcategory ("" for None)
NoSubcategory == ""
DomainDetection_new(d, sub) == [domain |-> d, subcategory |-> sub]

apply_domain_detection(t, project_node, detection, nid) ==
    LET d == ensure_domain(t, detection.domain, nid)
        c == IF detection.subcategory # NoSubcategory
             THEN ensure_category(d.tree, d.id, detection.subcategory, d.nid)
             ELSE [ok |-> TRUE, tree |-> d.tree, id |-> d.id, nid |-> d.nid]
    IN IF ~c.ok
       THEN [ok |-> FALSE, tree |-> c.tree, id |-> NoId, nid |-> c.nid]
       ELSE LET a == add_child(c.tree, c.id, project_node)
            IN [ok |-> a.ok, tree |-> a.tree, id |-> a.id, nid |-> c.nid]

\* are_in_same_branch that does not count a node as in its own branch
are_in_same_branch_proper(t, id_a, id_b) ==
    /\ id_a # id_b
    /\ \/ SeqContains(get_ancestry(t, id_a), id_b)
       \/ SeqContains(get_ancestry(t, id_b), id_a)

are_in_same_branch(t, id_a, id_b) ==
    \/ SeqContains(get_ancestry(t, id_a), id_b)
    \/ SeqContains(get_ancestry(t, id_b), id_a)

\* The links of add_links, added whatever the branches of the two nodes
add_links_any(t, id_a, id_b) ==
    LET n1 == IF id_a \in DOMAIN t.nodes
                 /\ ~SeqContains(t.nodes[id_a].related_nodes, id_b)
              THEN [t.nodes EXCEPT ![id_a].related_nodes = Append(@, id_b)]
              ELSE t.nodes
        n2 == IF id_b \in DOMAIN n1
                 /\ ~SeqContains(n1[id_b].related_nodes, id_a)
              THEN [n1 EXCEPT ![id_b].related_nodes = Append(@, id_a)]
              ELSE n1
    IN [t EXCEPT !.nodes = n2]

\* The body of the (i, j) loops of build_cross_links for one pair of ids.
add_links(t, id_a, id_b) ==
    IF are_in_same_branch(t, id_a, id_b) THEN t
    ELSE LET n1 == IF id_a \in DOMAIN t.nodes
                      /\ ~SeqContains(t.nodes[id_a].related_nodes, id_b)
                   THEN [t.nodes EXCEPT ![id_a].related_nodes = Append(@, id_b)]
                   ELSE t.nodes
             n2 == IF id_b \in DOMAIN n1
                      /\ ~SeqContains(n1[id_b].related_nodes, id_a)
                   THEN [n1 EXCEPT ![id_b].related_nodes = Append(@, id_a)]
                   ELSE n1
         IN [t EXCEPT !.nodes = n2]

RECURSIVE link_pairs(_, _, _, _)
link_pairs(t, ids, i, j) ==
    IF i > Len(ids) THEN t
    ELSE IF j > Len(ids) THEN link_pairs(t, ids, i + 1, i + 2)
    ELSE link_pairs(add_links(t, ids[i], ids[j]), ids, i, j + 1)

\* The entities field keeps the normalized name of each Technology entity of
\* the node, in order; entities of other types play no part in the tree.
RECURSIVE count_tech(_, _)
count_tech(entities, tech) ==
    IF entities = <<>> THEN 0
    ELSE (IF Head(entities) = tech THEN 1 ELSE 0) + count_tech(Tail(entities), tech)

RECURSIVE repeat(_, _)
repeat(id, n) == IF n = 0 THEN <<>> ELSE <<id>> \o repeat(id, n - 1)

\* tech_index[tech]: the ids pushed while walking the nodes in node_order
RECURSIVE tech_ids(_, _, _)
tech_ids(t, node_order, tech) ==
    IF node_order = <<>> THEN <<>>
    ELSE repeat(Head(node_order), count_tech(t.nodes[Head(node_order)].entities, tech))
         \o tech_ids(t, Tail(node_order), tech)

all_techs(t) ==
    UNION {{t.nodes[id].entities[i] : i \in 1..Len(t.nodes[id].entities)} :
              id \in DOMAIN t.nodes}

\* The nodes that carry a Technology entity.
tech_nodes(t) == {id \in DOMAIN t.nodes : t.nodes[id].entities # <<>>}

\* build_cross_links. node_order is the order in which the iteration over the
\* nodes map meets the nodes that carry a Technology entity, tech_order the
\* iteration order of tech_index; both are HashMaps in the source.
RECURSIVE link_techs(_, _, _)
link_techs(t, node_order, tech_order) ==
    IF tech_order = <<>> THEN t
    ELSE LET ids == tech_ids(t, node_order, Head(tech_order))
             t1 == IF Len(ids) > 1 THEN link_pairs(t, ids, 1, 2) ELSE t
         IN link_techs(t1, node_order, Tail(tech_order))

build_cross_links(t, node_order, tech_order) == link_techs(t, node_order, tech_order)

----------------------------------------------------------------------------
(* tree.rs queries used by the optimizer, and optimizer.rs *)

nodes_at_depth(t, depth) == {id \in DOMAIN t.nodes : t.nodes[id].depth = depth}

\* max_depth: the largest depth field, 0 for a tree without nodes
max_depth(t) ==
    IF DOMAIN t.nodes = {} THEN 0
    ELSE CHOOSE d \in {t.nodes[id].depth : id \in DOMAIN t.nodes} :
             \A id \in DOMAIN t.nodes : t.nodes[id].depth <= d

\* The loop of get_descendants: to_visit is a stack, the last id is popped,
\* a node found is pushed onto descendants and its children onto the stack.
RECURSIVE descend(_, _, _, _)
descend(t, node_id, to_visit, descendants) ==
    IF to_visit = <<>> THEN descendants
    ELSE LET id == to_visit[Len(to_visit)]
             rest == SubSeq(to_visit, 1, Len(to_visit) - 1)
         IN IF id \in DOMAIN t.nodes
            THEN descend(t, node_id, rest \o t.nodes[id].children,
                         IF id # node_id THEN Append(descendants, id) ELSE descendants)
            ELSE descend(t, node_id, rest, descendants)

get_descendants(t, node_id) == descend(t, node_id, <<node_id>>, <<>>)

\* The entities of the nodes ids, concatenated in order
RECURSIVE entities_of(_, _)
entities_of(t, ids) ==
    IF ids = <<>> THEN <<>>
    ELSE t.nodes[Head(ids)].entities \o entities_of(t, Tail(ids))

\* The body of the loop of compress_deep_branches for one node of deep_nodes:
\* [tree, removed_ids, compressed_count]
compress_node(t, id, removed_ids, compressed_count) ==
    LET descendants == get_descendants(t, id) IN
    IF descendants = <<>>
    THEN [tree |-> t, removed_ids |-> removed_ids, compressed_count |-> compressed_count]
    ELSE [tree |-> IF id \in DOMAIN t.nodes
                   THEN [t EXCEPT !.nodes[id].summary = <<@, "Compressed", descendants>>,
                                  !.nodes[id].entities = @ \o entities_of(t, descendants)]
                   ELSE t,
          removed_ids |-> removed_ids \o descendants,
          compressed_count |-> compressed_count + 1]

RECURSIVE compress_nodes(_, _, _, _)
compress_nodes(t, deep_nodes, removed_ids, compressed_count) ==
    IF deep_nodes = <<>>
    THEN [tree |-> t, removed_ids |-> removed_ids, compressed_count |-> compressed_count]
    ELSE LET r == compress_node(t, Head(deep_nodes), removed_ids, compressed_count)
         IN compress_nodes(r.tree, Tail(deep_nodes), r.removed_ids, r.compressed_count)

RECURSIVE remove_all(_, _)
remove_all(t, ids) ==
    IF ids = <<>> THEN t ELSE remove_all(remove(t, Head(ids)), Tail(ids))

\* TreeOptimizer::compress_deep_branches with max_depth_threshold = threshold;
\* deep_nodes is nodes_at_depth(threshold) in the iteration order of the map.
\* [tree, removed_ids, compressed_count]
compress_deep_branches(t, threshold, deep_nodes) ==
    IF max_depth(t) <= threshold
    THEN [tree |-> t, removed_ids |-> <<>>, compressed_count |-> 0]
    ELSE LET r == compress_nodes(t, deep_nodes, <<>>, 0)
         IN [r EXCEPT !.tree = remove_all(r.tree, r.removed_ids)]

\* ContextNode::is_leaf
is_leaf(node) == node.children = <<>>

\* The filter of prune_stale_nodes with <= in place of < for the cutoff
is_stale_at_cutoff(node, age, time, max_idle_days, min_access_count) ==
    /\ node.node_type = "FileReference"
    /\ age.last_updated <= time - max_idle_days
    /\ age.access_count < min_access_count

\* The filter of prune_stale_nodes on a leaf; time - max_idle_days is cutoff.
is_stale(node, age, time, max_idle_days, min_access_count) ==
    /\ node.node_type = "FileReference"
    /\ age.last_updated < time - max_idle_days
    /\ age.access_count < min_access_count

\* stale_ids of prune_stale_nodes, as a set
stale_ids(t, a, time, max_idle_days, min_access_count) ==
    {id \in DOMAIN t.nodes :
        /\ is_leaf(t.nodes[id])
        /\ is_stale(t.nodes[id], a[id], time, max_idle_days, min_access_count)}

\* TreeOptimizer::prune_stale_nodes: the nodes of stale_ids are removed in
\* the order of the vector.
prune_stale_nodes(t, stale_order) == remove_all(t, stale_order)

\* The children of a parent that are nodes of the tree, in the order of the
\* children list (filter_map over tree.get).
present_children(t, parent_id) ==
    SelectSeq(t.nodes[parent_id].children, LAMBDA id : id \in DOMAIN t.nodes)

\* by_type.get(&NodeType::FileReference)
file_refs_of(t, children) ==
    SelectSeq(children, LAMBDA id : t.nodes[id].node_type = "FileReference")

\* TreeOptimizer::merge_file_refs: the summary node, when there is one, and
\* the ids to remove.
merge_file_refs(t, file_refs, nid) ==
    IF Len(file_refs) < 2
    THEN [merged |-> FALSE, node |-> ContextNode_new(nid, "Document", "Files Summary"),
          removed |-> <<>>]
    ELSE [merged |-> TRUE,
          node |-> [ContextNode_new(nid, "Document", "Files Summary") EXCEPT
                        !.summary = <<"Summary of files", Len(file_refs)>>,
                        !.entities = entities_of(t, file_refs)],
          removed |-> file_refs]

\* The body of the loop of merge_similar_siblings for one parent:
\* [tree, next_id, removed_ids, created_ids]
merge_parent(t, parent_id, min_siblings, nid, removed_ids, created_ids) ==
    LET unchanged == [tree |-> t, next_id |-> nid, removed_ids |-> removed_ids,
                      created_ids |-> created_ids]
    IN
    IF parent_id \notin DOMAIN t.nodes THEN unchanged
    ELSE LET children == present_children(t, parent_id)
             file_refs == file_refs_of(t, children)
         IN
         IF Len(children) < min_siblings \/ Len(file_refs) < min_siblings \/ file_refs = <<>>
         THEN unchanged
         ELSE LET m == merge_file_refs(t, file_refs, nid)
                  added == IF m.merged THEN add_child(t, parent_id, m.node).tree ELSE t
              IN [tree |-> remove_all(added, m.removed),
                  next_id |-> IF m.merged THEN nid + 1 ELSE nid,
                  removed_ids |-> removed_ids \o m.removed,
                  created_ids |-> IF m.merged THEN Append(created_ids, nid)
                                  ELSE created_ids]

RECURSIVE merge_parents(_, _, _, _, _, _)
merge_parents(t, parent_ids, min_siblings, nid, removed_ids, created_ids) ==
    IF parent_ids = <<>>
    THEN [tree |-> t, next_id |-> nid, removed_ids |-> removed_ids,
          created_ids |-> created_ids]
    ELSE LET r == merge_parent(t, Head(parent_ids), min_siblings, nid, removed_ids,
                               created_ids)
         IN merge_parents(r.tree, Tail(parent_ids), min_siblings, r.next_id,
                          r.removed_ids, r.created_ids)

\* The nodes that have children.
parents_with_children(t) == {id \in DOMAIN t.nodes : t.nodes[id].children # <<>>}

\* TreeOptimizer::merge_similar_siblings with min_siblings_for_merge =
\* min_siblings; parent_ids is the non-leaf nodes in the iteration order of
\* the map.  [tree, next_id, removed_ids, created_ids]
merge_similar_siblings(t, parent_ids, min_siblings, nid) ==
    merge_parents(t, parent_ids, min_siblings, nid, <<>>, <<>>)

----------------------------------------------------------------------------
(* embeddings/cache.rs: EmbeddingCache *)

\* EmbeddingCache::hash_key: the key of a (text, model) pair; the 64-bit hash
\* is taken to tell the pairs used here apart.
hash_key(text, model) == <<text, model>>

CacheEntry(key, embedding, model, created_at) ==
    [text_hash |-> key, embedding |-> embedding, model |-> model, created_at |-> created_at]

\* The keys min_by_key(created_at) can return: those of the least created_at;
\* among equal ones the iteration order of the map decides.
oldest_keys(c) ==
    {k \in DOMAIN c : \A j \in DOMAIN c : c[k].created_at <= c[j].created_at}

\* The keys put may evict before it inserts: one of the oldest when the map
\* holds max_entries entries or more, none (NoKey) otherwise or when the map
\* is empty.
evictable(c, max) ==
    IF Cardinality(DOMAIN c) >= max /\ DOMAIN c # {} THEN oldest_keys(c) ELSE {NoKey}

\* EmbeddingCache::put on the map, oldest being the key chosen for eviction
put(c, key, entry, oldest) ==
    MapInsert(IF oldest # NoKey THEN MapRemove(c, oldest) ELSE c, key, entry)

\* EmbeddingCache::save: the entries written to the file
save(c) == [exists |-> TRUE, entries |-> {c[k] : k \in DOMAIN c}]

\* EmbeddingCache::load: every entry of the file is inserted under its
\* text_hash.
load_entries(c, entries) ==
    [k \in DOMAIN c \cup {e.text_hash : e \in entries} |->
        IF \E e \in entries : e.text_hash = k
        THEN CHOOSE e \in entries : e.text_hash = k
        ELSE c[k]]

----------------------------------------------------------------------------
(* directory-watcher: config.rs, event.rs, watcher.rs *)

\* DirectoryConfig::new(path); of default_excludes the pattern that matters
\* for the paths used here is kept.
DirectoryConfig_new(path) ==
    [path |-> path, enabled |-> TRUE, watch_mode |-> "Realtime",
     exclude_patterns |-> <<"**/tmp/**">>]
with_mode(cfg, mode) == [cfg EXCEPT !.watch_mode = mode]
disabled(cfg) == [cfg EXCEPT !.enabled = FALSE]

\* glob::Pattern::matches for the patterns and paths used here
glob_matches(pattern, path) == pattern = "**/tmp/**" /\ path = "/w/tmp/x.txt"

\* DirectoryConfig::should_exclude
should_exclude(cfg, path) ==
    \E i \in DOMAIN cfg.exclude_patterns : glob_matches(cfg.exclude_patterns[i], path)

\* should_process in the notify callback: no configured directory excludes
\* the path.
should_process(cfgs, path) == ~\E p \in DOMAIN cfgs : should_exclude(cfgs[p], path)

\* FileEvent::new(kind, path)
FileEvent(kind, path) == [kind |-> kind, path |-> path]

\* The directories start() hands to the notify watcher: enabled and Realtime.
realtime_paths(cfgs) ==
    {p \in DOMAIN cfgs : cfgs[p].enabled /\ cfgs[p].watch_mode = "Realtime"}

\* The configuration stored for a path, if any
stored(cfgs, path) ==
    IF path \in DOMAIN cfgs THEN [exists |-> TRUE, config |-> cfgs[path]]
    ELSE [exists |-> FALSE, config |-> DirectoryConfig_new(path)]

\* The callback after it has dealt with the first of its paths.
cb_next(c) ==
    IF Len(c.paths) > 1 THEN [pc |-> "read", paths |-> Tail(c.paths)]
    ELSE [pc |-> "idle", paths |-> <<>>]

\* FileEvent::new(kind, path) at the time of the clock
timed_event(kind, path, timestamp) ==
    [kind |-> kind, path |-> path, timestamp |-> timestamp]

\* latest.insert that keeps the entry a path already has
latest_insert_first(latest, event) ==
    IF event.path \in DOMAIN latest THEN latest ELSE MapInsert(latest, event.path, event)

\* latest.insert(event.path.clone(), event) in deduplicate
latest_insert(latest, event) == MapInsert(latest, event.path, event)

\* The loop of deduplicate over the drained events
RECURSIVE latest_of(_, _)
latest_of(latest, events) ==
    IF events = <<>> THEN latest
    ELSE latest_of(latest_insert(latest, Head(events)), Tail(events))

\* EventBatch::deduplicate: the new events, path_order being the iteration
\* order of into_values
deduplicate(events, path_order) ==
    LET latest == latest_of([p \in {} |-> NoPath], events)
    IN [i \in 1..Len(path_order) |-> latest[path_order[i]]]

\* The paths of a sequence of events
event_paths(events) == {events[i].path : i \in DOMAIN events}

----------------------------------------------------------------------------
(* sync.rs: SyncManager *)

\* The part of a ContextFile that compute_hash reads
ContextFile(summary, version) == [summary |-> summary, version |-> version]

\* SyncManager::compute_hash: the hash of summary and metadata.version; the
\* 64-bit hash is taken to tell the contents used here apart.
compute_hash(cf) == <<"hash", cf.summary, cf.version>>

SyncState(content_hash, dirty, source) ==
    [content_hash |-> content_hash, dirty |-> dirty, last_change_source |-> source]

\* mark_dirty on the map
mark_dirty(st, concept, source) ==
    IF concept \in DOMAIN st
    THEN [st EXCEPT ![concept].dirty = TRUE, ![concept].last_change_source = source]
    ELSE st

\* The assignments that mark a state as synced with the hash of the store
mark_synced(st, concept, hash) ==
    IF concept \in DOMAIN st
    THEN [st EXCEPT ![concept].content_hash = hash, ![concept].dirty = FALSE]
    ELSE st

\* The condition of the conflict branch of handle_context_updated
conflict_detected(st, concept, hash) ==
    concept \in DOMAIN st /\ st[concept].dirty /\ st[concept].content_hash # hash

----------------------------------------------------------------------------
(* agent.rs: ContextAgent *)

DefaultExtensions ==
    {"md", "txt", "rs", "py", "js", "ts", "go", "java", "toml", "yaml", "yml", "json"}

AgentConfig_default ==
    [auto_cross_link |-> TRUE, max_files_per_folder |-> 1000,
     extensions |-> DefaultExtensions, create_file_refs |-> TRUE]

\* A directory entry met by the walk. preview stands for the first lines of
\* the file ("" when empty), techs for the normalized names of the Technology
\* entities the analyzer extracts from its content.
Entry(path, name, ext, readable, preview, techs) ==
    [path |-> path, name |-> name, ext |-> ext, is_file |-> TRUE,
     readable |-> readable, preview |-> preview, techs |-> techs]

\* collect_files: walk the entries, keep the files with a configured
\* extension, stop once max_files_per_folder files are collected.
RECURSIVE collect_from(_, _, _)
collect_from(entries, files, cfg) ==
    IF entries = <<>> THEN files
    ELSE LET e == Head(entries) IN
         IF ~e.is_file THEN collect_from(Tail(entries), files, cfg)
         ELSE LET files1 == IF to_lowercase(e.ext) \in cfg.extensions
                            THEN Append(files, e) ELSE files
              IN IF Len(files1) >= cfg.max_files_per_folder THEN files1
                 ELSE collect_from(Tail(entries), files1, cfg)

collect_files(folder, cfg) == collect_from(folder.entries, <<>>, cfg)

\* analyze_folder_contents: the previews and the extensions of the first 10 files
first_files(files) == SubSeq(files, 1, IF Len(files) < 10 THEN Len(files) ELSE 10)

folder_extensions(files) == {first_files(files)[i].ext : i \in 1..Len(first_files(files))}

folder_summary(files) ==
    {first_files(files)[i].preview : i \in
        {j \in 1..Len(first_files(files)) :
            first_files(files)[j].readable /\ first_files(files)[j].preview # ""}}

\* llm.rs: detect_domain_heuristic_full and detect_coding_subcategory. A
\* preview is named after the keyword it contains.
CodingExts == {"rs", "py", "js", "ts", "go", "java", "cpp"}

detect_coding_subcategory(extensions) ==
    IF "rs" \in extensions THEN "rust-projects"
    ELSE IF "py" \in extensions THEN "python-projects"
    ELSE IF "js" \in extensions \/ "ts" \in extensions THEN "javascript-projects"
    ELSE IF "go" \in extensions THEN "go-projects"
    ELSE NoSubcategory

detect_domain(summary, extensions) ==
    IF extensions \cap CodingExts # {}
    THEN DomainDetection_new("coding", detect_coding_subcategory(extensions))
    ELSE IF "recipe" \in summary THEN DomainDetection_new("cooking", "recipes")
    ELSE IF "meeting" \in summary THEN DomainDetection_new("work", NoSubcategory)
    ELSE DomainDetection_new("other", NoSubcategory)

\* process_file: [ok, tree, nid, nodes]; ok is FALSE for the error return
process_file(t, file, parent_id, nid, cfg) ==
    IF ~file.readable THEN [ok |-> FALSE, tree |-> t, nid |-> nid, nodes |-> 0]
    ELSE LET doc_node == [document(nid, file.name, file.path) EXCEPT
                              !.summary = file.preview, !.entities = file.techs]
             d == add_child(t, parent_id, doc_node)
         IN IF ~d.ok THEN [ok |-> FALSE, tree |-> d.tree, nid |-> nid + 1, nodes |-> 0]
            ELSE IF ~cfg.create_file_refs
            THEN [ok |-> TRUE, tree |-> d.tree, nid |-> nid + 1, nodes |-> 1]
            ELSE LET f == add_child(d.tree, d.id,
                                    file_reference(nid + 1, file.name, file.path))
                 IN [ok |-> f.ok, tree |-> f.tree, nid |-> nid + 2,
                     nodes |-> IF f.ok THEN 2 ELSE 0]

\* The loop of process_folder over the collected files: [tree, nid, nodes, errors]
RECURSIVE process_files(_, _, _, _, _, _, _)
process_files(t, files, parent_id, nid, cfg, nodes, errors) ==
    IF files = <<>> THEN [tree |-> t, nid |-> nid, nodes |-> nodes, errors |-> errors]
    ELSE LET r == process_file(t, Head(files), parent_id, nid, cfg)
         IN process_files(r.tree, Tail(files), parent_id, r.nid, cfg,
                          nodes + r.nodes,
                          IF r.ok THEN errors ELSE Append(errors, Head(files).path))

\* update_root_summary: the summary names the number of domains and, for each
\* domain of domain_index that resolves, its number of children.
root_summary(t) ==
    [domains |-> Cardinality(list_domains(t)),
     items |-> {<<d, Len(t.nodes[get_domain(t, d)].children)>> :
                   d \in {x \in list_domains(t) : get_domain(t, x) # NoId}}]

count_cross_links(t) ==
    LET RECURSIVE sum(_)
        sum(S) == IF S = {} THEN 0
                  ELSE LET x == CHOOSE y \in S : TRUE
                       IN Len(t.nodes[x].related_nodes) + sum(S \ {x})
    IN sum(DOMAIN t.nodes)

\* process_folder from collect_files up to and including the loop over the
\* files, for a path that exists.
process_existing_folder(t, folder, nid, cfg) ==
    LET files == collect_files(folder, cfg)
        detection == detect_domain(folder_summary(files), folder_extensions(files))
        project_node == [project(nid, folder.name, folder.path) EXCEPT
                             !.summary = folder_summary(files)]
        a == apply_domain_detection(t, project_node, detection, nid + 1)
    IN IF ~a.ok
       THEN [status |-> "err", tree |-> a.tree, nid |-> a.nid, nodes_created |-> 0,
             files_processed |-> Len(files), errors |-> <<>>, root_node_id |-> NoId]
       ELSE LET f == process_files(a.tree, files, a.id, a.nid, cfg, 1, <<>>)
            IN [status |-> "ok", tree |-> f.tree, nid |-> f.nid,
                nodes_created |-> f.nodes, files_processed |-> Len(files),
                errors |-> f.errors, root_node_id |-> a.id]

\* process_folder that looks at path.exists() only after the folder was
\* ingested
process_folder_ingest_late(t, folder, nid, cfg) ==
    LET r == process_existing_folder(t, folder, nid, cfg)
    IN IF ~folder.exists THEN [r EXCEPT !.status = "err"] ELSE r

\* process_folder up to and including the loop over the files. status is
\* "ok" or "err" (the error return).
process_folder_ingest(t, folder, nid, cfg) ==
    IF ~folder.exists
    THEN [status |-> "err", tree |-> t, nid |-> nid, nodes_created |-> 0,
          files_processed |-> 0, errors |-> <<>>, root_node_id |-> NoId]
    ELSE process_existing_folder(t, folder, nid, cfg)

\* The rest of process_folder: cross-links and the root summary. status becomes
\* "panic" when update_root_summary calls ContextTree::root() on a tree whose
\* root node is missing.
process_folder_finish(r, cfg, node_order, tech_order) ==
    IF r.status # "ok" THEN r
    ELSE LET t1 == IF cfg.auto_cross_link
                   THEN build_cross_links(r.tree, node_order, tech_order)
                   ELSE r.tree
             panics == list_domains(t1) # {} /\ ~has_valid_root(t1)
             t2 == IF list_domains(t1) # {} /\ has_valid_root(t1)
                   THEN [t1 EXCEPT !.nodes[t1.root_id].summary = root_summary(t1)]
                   ELSE t1
         IN [r EXCEPT !.status = IF panics THEN "panic" ELSE "ok", !.tree = t2]

----------------------------------------------------------------------------
(* tree_storage.rs: TreeData and TreeStore *)

CURRENT_VERSION == 1

\* serde: a node as a JSON object. path and parent_id are left out when None
\* (skip_serializing_if); a JSON object is a function on its keys.
OptionalKeys(node) ==
    (IF node.path # NoPath THEN {"path"} ELSE {})
        \cup (IF node.parent_id # NoId THEN {"parent_id"} ELSE {})

to_json(node) ==
    [k \in {"id", "node_type", "name", "depth", "summary", "entities", "children",
            "related_nodes"} \cup OptionalKeys(node) |-> node[k]]

\* serde: a JSON object as a node; keys left out take their default.
from_json(obj) ==
    [id |-> obj["id"], node_type |-> obj["node_type"], name |-> obj["name"],
     path |-> IF "path" \in DOMAIN obj THEN obj["path"] ELSE NoPath,
     depth |-> obj["depth"], summary |-> obj["summary"],
     parent_id |-> IF "parent_id" \in DOMAIN obj THEN obj["parent_id"] ELSE NoId,
     children |-> IF "children" \in DOMAIN obj THEN obj["children"] ELSE <<>>,
     entities |-> IF "entities" \in DOMAIN obj THEN obj["entities"] ELSE <<>>,
     related_nodes |-> IF "related_nodes" \in DOMAIN obj THEN obj["related_nodes"]
                       ELSE <<>>]

\* The three contents tree.json can have: no file, bytes that are not a JSON
\* document of TreeData, or a TreeData document. nodes maps each stored id to
\* its JSON object; the order of the array is an argument of into_tree.
Absent == [kind |-> "absent", version |-> 0, root_id |-> NoId,
           nodes |-> EmptyMap, domain_index |-> EmptyMap]
Partial == [Absent EXCEPT !.kind = "partial"]

\* TreeData::from_tree; the caller has checked that the root exists
\* (tree.root() panics otherwise).
from_tree(t) ==
    [kind |-> "data", version |-> CURRENT_VERSION, root_id |-> t.root_id,
     nodes |-> [id \in DOMAIN t.nodes |-> to_json(t.nodes[id])],
     domain_index |-> [d \in {x \in list_domains(t) : get_domain(t, x) # NoId} |->
                          get_domain(t, d)]]

RECURSIVE insert_all(_, _, _)
insert_all(t, data, order) ==
    IF order = <<>> THEN t
    ELSE insert_all(insert(t, from_json(data.nodes[Head(order)])), data, Tail(order))

remove_default_root_kept(t, data, default_root_id) == t

remove_default_root(t, data, default_root_id) ==
    IF default_root_id # data.root_id THEN remove(t, default_root_id) ELSE t

\* TreeData::into_tree. default_root_id is the id of the root that
\* ContextTree::new() makes, order the order of the stored nodes array.
into_tree(data, default_root_id, order) ==
    IF DOMAIN data.nodes = {} THEN new(default_root_id)
    ELSE IF data.root_id \notin DOMAIN data.nodes THEN new(default_root_id)
    ELSE LET t1 == insert_all(new(default_root_id), data, order)
             t2 == remove_default_root(t1, data, default_root_id)
         IN IF data.root_id \notin DOMAIN t2.nodes THEN new(default_root_id + 1)
            ELSE t2

\* TreeStore::load: ok is FALSE for the error return
load(file, default_root_id, order) ==
    IF file.kind = "absent" THEN [ok |-> TRUE, tree |-> new(default_root_id)]
    ELSE IF file.kind = "partial" THEN [ok |-> FALSE, tree |-> new(default_root_id)]
    ELSE [ok |-> TRUE, tree |-> into_tree(file, default_root_id, order)]

NoTree == [nodes |-> EmptyMap, root_id |-> NoId,
           domain_index |-> EmptyMap, path_index |-> EmptyMap]

----------------------------------------------------------------------------
(* Inputs of the public operations *)

Path1 == "/code/app"
File1 == "/code/app/main.rs"
DomainNames == {"coding", "Coding", "other"}
Detections == {DomainDetection_new("coding", "rust-projects"),
               DomainDetection_new("other", NoSubcategory)}

FolderApp ==
    [path |-> Path1, name |-> "app", exists |-> TRUE,
     entries |-> <<Entry(File1, "main.rs", "rs", TRUE, "fn main", <<"rust">>)>>]
FolderNotes ==
    [path |-> "/notes", name |-> "notes", exists |-> TRUE,
     entries |-> <<Entry("/notes/locked.md", "locked.md", "md", FALSE, "", <<>>),
                   Entry("/notes/cake.md", "cake.md", "md", TRUE, "recipe", <<"rust">>)>>]
FolderEmpty == [path |-> "/empty", name |-> "empty", exists |-> TRUE, entries |-> <<>>]
FolderMissing ==
    [path |-> "/nonexistent/path", name |-> "path", exists |-> FALSE, entries |-> <<>>]
Folders == {FolderApp, FolderNotes, FolderEmpty, FolderMissing}

AgentConfigs ==
    {AgentConfig_default, [AgentConfig_default EXCEPT !.create_file_refs = FALSE],
     [AgentConfig_default EXCEPT !.max_files_per_folder = 1],
     [AgentConfig_default EXCEPT !.max_files_per_folder = 0]}

with_entities(node, entities) == [node EXCEPT !.entities = entities]

\* The nodes a caller constructs with the constructors of node.rs.
NodeInputs(id) ==
    {root(id), domain(id, "Coding"),
     with_entities(document(id, "main.rs", File1), <<"rust">>),
     with_entities(file_reference(id, "main.rs", File1), <<"rust">>)}

Op(op, ok, id) == [op |-> op, ok |-> ok, id |-> id]

Tasks == 1..NumTasks
NoTask == 0
NoRequest == [kind |-> "none", path |-> NoPath]
NoResult == [status |-> "none", files_processed |-> 0, nodes_created |-> 0]

\* DirectoryWatcher::new: no directory is configured, no guard is held, no
\* notify watcher exists and the channel is empty.
NoCall == [pc |-> "idle", call |-> "new", path |-> NoPath, result |-> "Ok"]
WatcherIdle ==
    /\ configs = [p \in {} |-> NoPath]
    /\ configs_lock = [writer |-> FALSE, readers |-> {}]
    /\ watcher = [some |-> FALSE, paths |-> {}]
    /\ running = FALSE
    /\ channel = <<>>
    /\ cb = [pc |-> "idle", paths |-> <<>>]
    /\ api = NoCall

\* EmbeddingCache::new(max) or with_persistence(path, max) without a file
CacheIdle(max, path) ==
    /\ cache = EmptyCache
    /\ cache_path = path
    /\ max_entries = max
    /\ cache_file = NoFile
    /\ now = 0
    /\ cache_op = [op |-> "new", key |-> NoKey, evicted |-> NoKey, before |-> EmptyCache]

\* ContextNode::new: last_updated is the time of creation, access_count 0
Age(last_updated, access_count) ==
    [last_updated |-> last_updated, access_count |-> access_count]

\* The ages of the nodes of ContextTree::new at time 0
NewAges == [id \in {1} |-> Age(0, 0)]

\* EventBatch::new
BatchIdle ==
    /\ batch = <<>>
    /\ batch_op = [op |-> "new", before |-> <<>>]

\* SyncManager::new(strategy) over an empty store: no concept has a state,
\* no guard is held or awaited and no event is being processed.
NoEvent == [pc |-> "idle", concept |-> "none", result |-> "none"]
SyncIdle(strategy) ==
    /\ states = [c \in {} |-> NoPath]
    /\ states_lock = {}
    /\ conflict_strategy = strategy
    /\ store = [c \in {} |-> NoPath]
    /\ sync = NoEvent

\* No get_ancestry in progress, an empty cache, a new watcher, an empty
\* batch and a new sync manager
SideIdle ==
    /\ walk = NoWalk
    /\ CacheIdle(2, NoPath)
    /\ WatcherIdle
    /\ BatchIdle
    /\ SyncIdle("Merge")
    /\ ages = NewAges

\* ContextHandler::new without a stored tree: no request is in flight and
\* the RwLock around the agent is free.
HandlerIdle ==
    /\ pc = [t \in Tasks |-> "idle"]
    /\ req = [t \in Tasks |-> NoRequest]
    /\ res = [t \in Tasks |-> NoResult]
    /\ writer = NoTask
    /\ readers = {}
    /\ notifications = <<>>

----------------------------------------------------------------------------
(* The public mutations of ContextTree *)

Init ==
    /\ tree = new(1)
    /\ next_id = 2
    /\ last_op = Op("new", TRUE, 1)
    /\ config = AgentConfig_default
    /\ steps = 0
    /\ tree_json = Absent
    /\ tree_json_bak = Absent
    /\ saved_tree = NoTree
    /\ phase = "building"
    /\ HandlerIdle
    /\ SideIdle

\* tree.insert(node), node built by a constructor, with_parent optional
Insert ==
    /\ next_id <= MaxNodes
    /\ \E n \in NodeInputs(next_id), p \in {NoId} \cup DOMAIN tree.nodes :
          LET node == IF p = NoId THEN n ELSE with_parent(n, p) IN
          /\ tree' = insert(tree, node)
          /\ last_op' = Op("insert", TRUE, next_id)
    /\ next_id' = next_id + 1
    /\ UNCHANGED <<sideVars, handlerVars, agentVars, storeVars>>

\* tree.remove(id), for ids present and absent
Remove ==
    /\ \E id \in 1..(next_id - 1) :
          /\ tree' = remove(tree, id)
          /\ last_op' = Op("remove", id \in DOMAIN tree.nodes, id)
    /\ UNCHANGED <<sideVars, handlerVars, next_id, agentVars, storeVars>>

\* tree.add_child(parent_id, child)
AddChild ==
    /\ next_id <= MaxNodes
    /\ \E n \in NodeInputs(next_id), p \in 1..(next_id - 1) :
          LET r == add_child(tree, p, n) IN
          /\ tree' = r.tree
          /\ last_op' = [op |-> "add_child", ok |-> r.ok, id |-> r.id, error |-> r.error]
    /\ next_id' = next_id + 1
    /\ UNCHANGED <<sideVars, handlerVars, agentVars, storeVars>>

\* tree.ensure_domain(name)
EnsureDomain ==
    /\ next_id <= MaxNodes
    /\ \E name \in DomainNames :
          LET r == ensure_domain(tree, name, next_id) IN
          /\ tree' = r.tree
          /\ next_id' = r.nid
          /\ last_op' = Op("ensure_domain", TRUE, r.id)
    /\ UNCHANGED <<sideVars, handlerVars, agentVars, storeVars>>

\* tree.apply_domain_detection(project_node, detection)
ApplyDomainDetection ==
    /\ next_id <= MaxNodes
    /\ \E det \in Detections :
          LET r == apply_domain_detection(tree, project(next_id, "app", Path1),
                                          det, next_id + 1) IN
          /\ tree' = r.tree
          /\ next_id' = r.nid
          /\ last_op' = Op("apply_domain_detection", r.ok, r.id)
    /\ UNCHANGED <<sideVars, handlerVars, agentVars, storeVars>>

\* tree.build_cross_links()
BuildCrossLinks ==
    /\ \E node_order \in Orders(tech_nodes(tree)), tech_order \in Orders(all_techs(tree)) :
          tree' = build_cross_links(tree, node_order, tech_order)
    /\ last_op' = Op("build_cross_links", TRUE, NoId)
    /\ UNCHANGED <<sideVars, handlerVars, next_id, agentVars, storeVars>>

\* tree.ensure_root()
EnsureRoot ==
    /\ next_id <= MaxNodes
    /\ tree' = ensure_root(tree, next_id)
    /\ next_id' = IF has_valid_root(tree) THEN next_id ELSE next_id + 1
    /\ last_op' = Op("ensure_root", TRUE, tree'.root_id)
    /\ UNCHANGED <<sideVars, handlerVars, agentVars, storeVars>>

Next ==
    \/ Insert
    \/ Remove
    \/ AddChild
    \/ EnsureDomain
    \/ ApplyDomainDetection
    \/ BuildCrossLinks
    \/ EnsureRoot

Spec == Init /\ [][Next]_vars

----------------------------------------------------------------------------
(* The optimizer: the public mutations and compress_deep_branches *)

\* The values of OptimizerConfig::max_depth_threshold tried.
Thresholds == {1, 2}

\* optimizer.compress_deep_branches(tree, analyzer)
Compress ==
    /\ \E threshold \in Thresholds :
       \E deep_nodes \in Orders(nodes_at_depth(tree, threshold)) :
       \E r \in {compress_deep_branches(tree, threshold, deep_nodes)} :
          /\ tree' = r.tree
          /\ last_op' = [op |-> "compress", ok |-> TRUE, id |-> NoId,
                         threshold |-> threshold, removed_ids |-> r.removed_ids]
    /\ UNCHANGED <<sideVars, handlerVars, next_id, agentVars, storeVars>>

\* Values of OptimizerConfig.min_siblings_for_merge
MinSiblings == {2, 3}

\* TreeOptimizer::merge_similar_siblings
MergeSiblings ==
    /\ next_id <= MaxNodes + 1
    /\ \E min_siblings \in MinSiblings :
       \E parent_ids \in Orders(parents_with_children(tree)) :
       \E r \in {merge_similar_siblings(tree, parent_ids, min_siblings, next_id)} :
          /\ tree' = r.tree
          /\ next_id' = r.next_id
          /\ last_op' = [op |-> "merge", ok |-> TRUE, id |-> NoId,
                         removed_ids |-> r.removed_ids, created_ids |-> r.created_ids]
    /\ UNCHANGED <<sideVars, handlerVars, agentVars, storeVars>>

OptimizerNext ==
    \/ Insert
    \/ Remove
    \/ AddChild
    \/ EnsureDomain
    \/ ApplyDomainDetection
    \/ BuildCrossLinks
    \/ EnsureRoot
    \/ Compress
    \/ MergeSiblings

OptimizerSpec == Init /\ [][OptimizerNext]_vars

----------------------------------------------------------------------------
(* get_ancestry, one loop iteration at a time, on trees built by insert *)

\* tree.insert(node.with_parent(p)) for any id p: of a node of the tree, of
\* the node itself, or of a node not in the tree
InsertLinked ==
    /\ walk.pc # "loop"
    /\ next_id <= MaxNodes
    /\ \E n \in NodeInputs(next_id), p \in 1..MaxNodes :
          /\ tree' = insert(tree, with_parent(n, p))
          /\ last_op' = Op("insert", TRUE, next_id)
    /\ next_id' = next_id + 1
    /\ UNCHANGED <<sideVars, handlerVars, agentVars, storeVars>>

\* tree.remove(id) between two calls of get_ancestry
RemoveLinked ==
    /\ walk.pc # "loop"
    /\ Remove

\* tree.get_ancestry(node_id) is called
StartWalk ==
    /\ walk.pc # "loop"
    /\ \E node_id \in 1..MaxNodes : walk' = walk_start(node_id)
    /\ UNCHANGED <<extraVars, coreVars, cacheVars, watcherVars>>

\* The while loop of get_ancestry
WalkStep ==
    /\ walk.pc = "loop"
    /\ walk' = walk_step(tree, walk)
    /\ UNCHANGED <<extraVars, coreVars, cacheVars, watcherVars>>

AncestryNext ==
    \/ InsertLinked
    \/ RemoveLinked
    \/ StartWalk
    \/ WalkStep

AncestrySpec == Init /\ [][AncestryNext]_vars

\* The thread that called get_ancestry keeps running.
FairAncestrySpec == AncestrySpec /\ WF_vars(WalkStep)

----------------------------------------------------------------------------
(* The embedding cache *)

\* Largest value of the clock, in seconds.
MaxClock == 1

Texts == {"a", "b", "c"}
Models == {"model"}
Vectors == {<<1>>}
CacheSizes == 0..2

CacheInit ==
    /\ tree = new(1)
    /\ next_id = 2
    /\ last_op = Op("new", TRUE, 1)
    /\ config = AgentConfig_default
    /\ steps = 0
    /\ tree_json = Absent
    /\ tree_json_bak = Absent
    /\ saved_tree = NoTree
    /\ phase = "building"
    /\ HandlerIdle
    /\ walk = NoWalk
    /\ WatcherIdle
    /\ BatchIdle
    /\ SyncIdle("Merge")
    /\ ages = NewAges
    /\ \E max \in CacheSizes, path \in {NoPath, CachePath} : CacheIdle(max, path)

\* cache.put(text, model, embedding)
CachePut ==
    /\ \E text \in Texts, model \in Models, embedding \in Vectors :
       \E oldest \in evictable(cache, max_entries) :
          LET key == hash_key(text, model)
              c == put(cache, key, CacheEntry(key, embedding, model, now), oldest)
          IN /\ cache' = c
             /\ cache_file' = IF cache_path # NoPath THEN save(c) ELSE cache_file
             /\ cache_op' = [op |-> "put", key |-> key, evicted |-> oldest,
                          before |-> cache]
    /\ UNCHANGED <<extraVars, coreVars, walkVars, watcherVars, cache_path, max_entries, now>>

\* cache.remove(text, model)
CacheRemove ==
    /\ \E text \in Texts, model \in Models :
          LET key == hash_key(text, model) IN
          /\ cache' = MapRemove(cache, key)
          /\ cache_op' = [op |-> "remove", key |-> key, evicted |-> NoKey,
                          before |-> cache]
    /\ UNCHANGED <<extraVars, coreVars, walkVars, watcherVars, cache_path, max_entries, cache_file, now>>

\* cache.clear()
CacheClear ==
    /\ cache' = EmptyCache
    /\ cache_op' = [op |-> "clear", key |-> NoKey, evicted |-> NoKey,
                          before |-> cache]
    /\ UNCHANGED <<extraVars, coreVars, walkVars, watcherVars, cache_path, max_entries, cache_file, now>>

\* EmbeddingCache::with_persistence(path, max): a new cache over the file
\* that an earlier cache left at the path
CacheOpen ==
    /\ \E max \in CacheSizes :
          /\ max_entries' = max
          /\ cache' = IF cache_file.exists
                       THEN load_entries(EmptyCache, cache_file.entries)
                       ELSE EmptyCache
    /\ cache_path' = CachePath
    /\ cache_op' = [op |-> "with_persistence", key |-> NoKey, evicted |-> NoKey,
                          before |-> cache]
    /\ UNCHANGED <<extraVars, coreVars, walkVars, watcherVars, cache_file, now>>

\* A second passes.
Tick ==
    /\ now < MaxClock
    /\ now' = now + 1
    /\ UNCHANGED <<extraVars, coreVars, walkVars, watcherVars, cache, cache_path, max_entries,
                   cache_file, cache_op>>

CacheNext ==
    \/ CachePut
    \/ CacheRemove
    \/ CacheClear
    \/ CacheOpen
    \/ Tick

CacheSpec == CacheInit /\ [][CacheNext]_vars

----------------------------------------------------------------------------
(* The directory watcher: the calls of its owner, the notify callback on the
   thread of the notify watcher, and the consumer of the channel *)

\* Capacity of the event channel in the model (mpsc::channel(1000) in new).
MaxChannel == 2

ExistingDirs == {"/w", "/v"}
ConfigInputs ==
    {DirectoryConfig_new("/w"), DirectoryConfig_new("/v"),
     with_mode(DirectoryConfig_new("/v"), "Scheduled"), disabled(DirectoryConfig_new("/w")),
     DirectoryConfig_new("/gone")}

\* The paths of one notify event under /w
EventPaths == {<<"/w/a.txt">>, <<"/w/tmp/x.txt">>, <<"/w/tmp/x.txt", "/w/a.txt">>}

\* watcher.add(config) up to the check of the configured paths
AddCall ==
    /\ api.pc = "idle"
    /\ \E cfg \in ConfigInputs :
          api' = IF cfg.path \notin ExistingDirs
                 THEN [pc |-> "idle", call |-> "add", path |-> cfg.path,
                       result |-> "DirectoryNotFound"]
                 ELSE IF cfg.path \in DOMAIN configs
                 THEN [pc |-> "idle", call |-> "add", path |-> cfg.path,
                       result |-> "AlreadyWatching"]
                 ELSE [pc |-> "add_write", call |-> "add", path |-> cfg.path, cfg |-> cfg,
                       result |-> "none"]
    /\ ~configs_lock.writer
    /\ UNCHANGED <<extraVars, coreVars, walkVars, cacheVars, configs, configs_lock, watcher, running,
                   channel, cb>>

\* self.configs.write().await in add: granted when no guard is held
AddAcquireWrite ==
    /\ api.pc = "add_write"
    /\ ~configs_lock.writer /\ configs_lock.readers = {}
    /\ configs_lock' = [configs_lock EXCEPT !.writer = TRUE]
    /\ api' = [api EXCEPT !.pc = "add_insert"]
    /\ UNCHANGED <<extraVars, coreVars, walkVars, cacheVars, configs, watcher, running, channel, cb>>

\* insert(path, config) in add, the guard is dropped and add returns Ok
AddInsert ==
    /\ api.pc = "add_insert"
    /\ configs' = MapInsert(configs, api.path, api.cfg)
    /\ configs_lock' = [configs_lock EXCEPT !.writer = FALSE]
    /\ api' = [pc |-> "idle", call |-> "add", path |-> api.path, result |-> "Ok"]
    /\ UNCHANGED <<extraVars, coreVars, walkVars, cacheVars, watcher, running, channel, cb>>

\* watcher.remove(path): self.configs.write().await
RemoveAcquireWrite ==
    /\ api.pc = "idle"
    /\ ~configs_lock.writer /\ configs_lock.readers = {}
    /\ \E path \in ExistingDirs :
          api' = [pc |-> "remove", call |-> "remove", path |-> path, result |-> "none"]
    /\ configs_lock' = [configs_lock EXCEPT !.writer = TRUE]
    /\ UNCHANGED <<extraVars, coreVars, walkVars, cacheVars, configs, watcher, running, channel, cb>>

\* configs.remove(path) in remove, the guard is dropped and remove returns
RemoveApply ==
    /\ api.pc = "remove"
    /\ configs' = MapRemove(configs, api.path)
    /\ configs_lock' = [configs_lock EXCEPT !.writer = FALSE]
    /\ api' = [pc |-> "idle", call |-> "remove", path |-> api.path,
               result |-> IF api.path \in DOMAIN configs THEN "Ok" ELSE "DirectoryNotFound"]
    /\ UNCHANGED <<extraVars, coreVars, walkVars, cacheVars, watcher, running, channel, cb>>

\* watcher.start(): every enabled Realtime directory is handed to w.watch; a
\* watch that fails (failed) is logged and start goes on.
Start ==
    /\ api.pc = "idle"
    /\ ~configs_lock.writer
    /\ IF running
       THEN UNCHANGED <<watcher, running>>
       ELSE /\ \E failed \in SUBSET realtime_paths(configs) :
                  watcher' = [some |-> TRUE, paths |-> realtime_paths(configs) \ failed]
            /\ running' = TRUE
    /\ api' = [pc |-> "idle", call |-> "start", path |-> NoPath, result |-> "Ok"]
    /\ UNCHANGED <<extraVars, coreVars, walkVars, cacheVars, configs, configs_lock, channel, cb>>

\* watcher.stop()
StopWatcher ==
    /\ api.pc = "idle"
    /\ ~configs_lock.writer
    /\ watcher' = [some |-> FALSE, paths |-> {}]
    /\ running' = FALSE
    /\ api' = [pc |-> "idle", call |-> "stop", path |-> NoPath, result |-> "Ok"]
    /\ UNCHANGED <<extraVars, coreVars, walkVars, cacheVars, configs, configs_lock, channel, cb>>

\* watcher.update(config) up to self.configs.write().await: without a
\* configuration for the path it returns DirectoryNotFound; when running the
\* path is unwatched.
UpdateCall ==
    /\ api.pc = "idle"
    /\ ~configs_lock.writer
    /\ \E cfg \in ConfigInputs :
          IF cfg.path \notin DOMAIN configs
          THEN /\ api' = [pc |-> "idle", call |-> "update", path |-> cfg.path,
                          before |-> stored(configs, cfg.path),
                          result |-> "DirectoryNotFound"]
               /\ UNCHANGED watcher
          ELSE /\ api' = [pc |-> "update_write", call |-> "update", path |-> cfg.path,
                          cfg |-> cfg, was_running |-> running,
                          before |-> stored(configs, cfg.path), result |-> "none"]
               /\ watcher' = IF running /\ watcher.some
                             THEN [watcher EXCEPT !.paths = @ \ {cfg.path}]
                             ELSE watcher
    /\ UNCHANGED <<extraVars, coreVars, walkVars, cacheVars, configs, configs_lock, running,
                   channel, cb>>

\* self.configs.write().await in update: granted when no guard is held
UpdateAcquireWrite ==
    /\ api.pc = "update_write"
    /\ ~configs_lock.writer /\ configs_lock.readers = {}
    /\ configs_lock' = [configs_lock EXCEPT !.writer = TRUE]
    /\ api' = [api EXCEPT !.pc = "update_insert"]
    /\ UNCHANGED <<extraVars, coreVars, walkVars, cacheVars, configs, watcher, running, channel, cb>>

\* insert(path, config) in update and the guard is dropped; when it was
\* running and the configuration is enabled and Realtime, w.watch(&path, mode)?
\* registers the path or makes update return the error of notify.
UpdateInsert ==
    /\ api.pc = "update_insert"
    /\ configs' = MapInsert(configs, api.path, api.cfg)
    /\ configs_lock' = [configs_lock EXCEPT !.writer = FALSE]
    /\ IF api.was_running /\ api.cfg.enabled /\ api.cfg.watch_mode = "Realtime" /\ watcher.some
       THEN \E watched \in BOOLEAN :
              /\ watcher' = IF watched THEN [watcher EXCEPT !.paths = @ \cup {api.path}]
                            ELSE watcher
              /\ api' = [pc |-> "idle", call |-> "update", path |-> api.path,
                         before |-> api.before,
                         result |-> IF watched THEN "Ok" ELSE "Notify"]
       ELSE /\ api' = [pc |-> "idle", call |-> "update", path |-> api.path,
                       before |-> api.before, result |-> "Ok"]
            /\ UNCHANGED watcher
    /\ UNCHANGED <<extraVars, coreVars, walkVars, cacheVars, running, channel, cb>>

\* The notify watcher calls the callback with an event for a registered
\* directory.
CbEvent ==
    /\ cb.pc = "idle"
    /\ watcher.some /\ "/w" \in watcher.paths
    /\ \E paths \in EventPaths : cb' = [pc |-> "read", paths |-> paths]
    /\ UNCHANGED <<extraVars, coreVars, walkVars, cacheVars, configs, configs_lock, watcher, running,
                   channel, api>>

\* configs.blocking_read() in the callback: returns once no write guard is
\* held
CbRead ==
    /\ cb.pc = "read"
    /\ ~configs_lock.writer
    /\ configs_lock' = [configs_lock EXCEPT !.readers = @ \cup {"cb"}]
    /\ cb' = [cb EXCEPT !.pc = "check"]
    /\ UNCHANGED <<extraVars, coreVars, walkVars, cacheVars, configs, watcher, running, channel, api>>

\* should_process is computed and the read guard is dropped
CbCheck ==
    /\ cb.pc = "check"
    /\ configs_lock' = [configs_lock EXCEPT !.readers = @ \ {"cb"}]
    /\ cb' = IF should_process(configs, Head(cb.paths)) THEN [cb EXCEPT !.pc = "send"]
             ELSE cb_next(cb)
    /\ UNCHANGED <<extraVars, coreVars, walkVars, cacheVars, configs, watcher, running, channel, api>>

\* event_tx.blocking_send(file_event): returns once the channel has room
CbSend ==
    /\ cb.pc = "send"
    /\ Len(channel) < MaxChannel
    /\ channel' = Append(channel, FileEvent("Modified", Head(cb.paths)))
    /\ cb' = cb_next(cb)
    /\ UNCHANGED <<extraVars, coreVars, walkVars, cacheVars, configs, configs_lock, watcher, running,
                   api>>

\* A consumer takes the oldest event: events().write().await.recv()
Recv ==
    /\ channel # <<>>
    /\ channel' = Tail(channel)
    /\ UNCHANGED <<extraVars, coreVars, walkVars, cacheVars, configs, configs_lock, watcher, running,
                   cb, api>>

WatcherNext ==
    \/ AddCall
    \/ AddAcquireWrite
    \/ AddInsert
    \/ RemoveAcquireWrite
    \/ RemoveApply
    \/ UpdateCall
    \/ UpdateAcquireWrite
    \/ UpdateInsert
    \/ Start
    \/ StopWatcher
    \/ CbEvent
    \/ CbRead
    \/ CbCheck
    \/ CbSend
    \/ Recv

WatcherSpec == Init /\ [][WatcherNext]_vars

----------------------------------------------------------------------------
(* The event batch *)

\* Largest number of events in the batch.
MaxBatch == 3

BatchKinds == {"Modified", "Deleted"}
BatchPaths == {"/test/a.txt", "/test/b.txt"}

\* batch.push(FileEvent::new(kind, path))
BatchPush ==
    /\ Len(batch) < MaxBatch
    /\ \E kind \in BatchKinds, path \in BatchPaths :
          batch' = Append(batch, timed_event(kind, path, now))
    /\ batch_op' = [op |-> "push", before |-> batch]
    /\ UNCHANGED <<coreVars, walkVars, cacheVars, watcherVars, syncVars, ageVars>>

\* batch.deduplicate()
BatchDeduplicate ==
    /\ \E path_order \in Orders(event_paths(batch)) :
          batch' = deduplicate(batch, path_order)
    /\ batch_op' = [op |-> "deduplicate", before |-> batch]
    /\ UNCHANGED <<coreVars, walkVars, cacheVars, watcherVars, syncVars, ageVars>>

BatchNext ==
    \/ BatchPush
    \/ BatchDeduplicate
    \/ Tick

BatchSpec == Init /\ [][BatchNext]_vars

----------------------------------------------------------------------------
(* The optimizer's pruning of stale file references *)

\* Values of OptimizerConfig.max_idle_days and min_access_count, and of the
\* access_count of a node
IdleDays == {0, 1}
AccessCounts == {0, 2}

\* tree.add_child(parent_id, node) for a node whose last_updated and
\* access_count the caller has set
AddAged ==
    /\ next_id <= MaxNodes
    /\ \E n \in NodeInputs(next_id), p \in DOMAIN tree.nodes,
          last_updated \in 0..now, access_count \in AccessCounts :
          \E r \in {add_child(tree, p, n)} :
             /\ tree' = r.tree
             /\ ages' = MapInsert(ages, next_id, Age(last_updated, access_count))
             /\ last_op' = [op |-> "add_child", ok |-> r.ok, id |-> r.id, error |-> r.error]
    /\ next_id' = next_id + 1
    /\ UNCHANGED <<handlerVars, agentVars, storeVars, walkVars, cacheVars, watcherVars,
                   batchVars, syncVars>>

\* TreeOptimizer::prune_stale_nodes
Prune ==
    /\ \E max_idle_days \in IdleDays, min_access_count \in AccessCounts :
       \E stale_order \in
              Orders(stale_ids(tree, ages, now, max_idle_days, min_access_count)) :
          /\ tree' = prune_stale_nodes(tree, stale_order)
          /\ last_op' = [op |-> "prune", ok |-> TRUE, id |-> NoId, before |-> tree,
                         time |-> now, max_idle_days |-> max_idle_days,
                         min_access_count |-> min_access_count]
    /\ UNCHANGED <<handlerVars, agentVars, storeVars, next_id, sideVars>>

PruneNext ==
    \/ AddAged
    \/ Prune
    \/ Tick

PruneSpec == Init /\ [][PruneNext]_vars

----------------------------------------------------------------------------
(* The sync manager: one task calls it; process_event(ContextUpdated) is
   followed guard by guard *)

Concepts == {"rust", "cooking"}
Contents == {ContextFile("notes", 1), ContextFile("notes", 2)}
Strategies == {"KeepLocal", "KeepIncoming", "Merge", "AskUser"}

SyncInit ==
    /\ tree = new(1)
    /\ next_id = 2
    /\ last_op = Op("new", TRUE, 1)
    /\ config = AgentConfig_default
    /\ steps = 0
    /\ tree_json = Absent
    /\ tree_json_bak = Absent
    /\ saved_tree = NoTree
    /\ phase = "building"
    /\ HandlerIdle
    /\ walk = NoWalk
    /\ CacheIdle(2, NoPath)
    /\ WatcherIdle
    /\ BatchIdle
    /\ ages = NewAges
    /\ \E strategy \in Strategies : SyncIdle(strategy)

\* The store gets or changes the context file of a concept.
StorePut ==
    /\ sync.pc = "idle"
    /\ \E concept \in Concepts, cf \in Contents : store' = MapInsert(store, concept, cf)
    /\ UNCHANGED <<coreVars, walkVars, cacheVars, watcherVars, batchVars, ageVars, states,
                   states_lock, conflict_strategy, sync>>

\* sync.init_state(cf) for a context file of the store
InitState ==
    /\ sync.pc = "idle"
    /\ states_lock = {}
    /\ \E concept \in DOMAIN store :
          states' = MapInsert(states, concept,
                              SyncState(compute_hash(store[concept]), FALSE, "Initial"))
    /\ UNCHANGED <<coreVars, walkVars, cacheVars, watcherVars, batchVars, ageVars, store,
                   states_lock, conflict_strategy, sync>>

\* process_event(UiEdit { concept, .. }): mark_dirty(concept, Ui)
UiEdit ==
    /\ sync.pc = "idle"
    /\ states_lock = {}
    /\ \E concept \in Concepts :
          /\ states' = mark_dirty(states, concept, "Ui")
          /\ sync' = [pc |-> "idle", concept |-> concept, result |-> "Ok"]
    /\ UNCHANGED <<coreVars, walkVars, cacheVars, watcherVars, batchVars, ageVars, store,
                   states_lock, conflict_strategy>>

\* process_event(ContextUpdated { concept }) up to states.write().await in
\* handle_context_updated; without a context file in the store it returns Ok.
ContextUpdated ==
    /\ sync.pc = "idle"
    /\ \E concept \in Concepts :
          sync' = IF concept \in DOMAIN store
                  THEN [pc |-> "write_states", concept |-> concept, result |-> "none"]
                  ELSE [pc |-> "idle", concept |-> concept, result |-> "Ok"]
    /\ UNCHANGED <<coreVars, walkVars, cacheVars, watcherVars, batchVars, ageVars, states,
                   states_lock, conflict_strategy, store>>

\* states.write().await is granted, which takes that no guard is held.  In
\* handle_context_updated: with a conflict resolve_conflict is called under
\* the guard; without one the state is marked synced, the guard dropped and
\* Ok returned.  In resolve_conflict: the state is marked synced and the guard
\* dropped, and handle_context_updated, which has no further await, marks the
\* state synced, drops its guard and returns Ok.
StatesWrite ==
    /\ sync.pc \in {"write_states", "resolve_write_states"}
    /\ states_lock = {}
    /\ LET hash == compute_hash(store[sync.concept]) IN
       IF sync.pc = "write_states" /\ conflict_detected(states, sync.concept, hash)
       THEN /\ states_lock' = {"handle_context_updated"}
            /\ sync' = [sync EXCEPT !.pc = "resolve_conflict"]
            /\ UNCHANGED states
       ELSE /\ states' = mark_synced(states, sync.concept, hash)
            /\ sync' = [sync EXCEPT !.pc = "idle", !.result = "Ok"]
            /\ UNCHANGED states_lock
    /\ UNCHANGED <<coreVars, walkVars, cacheVars, watcherVars, batchVars, ageVars, store,
                   conflict_strategy>>

\* resolve_conflict up to its states.write().await; with AskUser it returns
\* the SyncConflict error, which drops the guard of the caller.
ResolveConflict ==
    /\ sync.pc = "resolve_conflict"
    /\ IF conflict_strategy = "AskUser"
       THEN /\ states_lock' = {}
            /\ sync' = [sync EXCEPT !.pc = "idle", !.result = "SyncConflict"]
       ELSE /\ sync' = [sync EXCEPT !.pc = "resolve_write_states"]
            /\ UNCHANGED states_lock
    /\ UNCHANGED <<coreVars, walkVars, cacheVars, watcherVars, batchVars, ageVars, states,
                   store, conflict_strategy>>

SyncNext ==
    \/ StorePut
    \/ InitState
    \/ UiEdit
    \/ ContextUpdated
    \/ StatesWrite
    \/ ResolveConflict

SyncSpec == SyncInit /\ [][SyncNext]_vars

----------------------------------------------------------------------------
(* The agent: folders are processed and nodes removed through tree_mut() *)

AgentInit ==
    /\ tree = new(1)
    /\ next_id = 2
    /\ last_op = Op("new", TRUE, 1)
    /\ config \in AgentConfigs
    /\ steps = 0
    /\ tree_json = Absent
    /\ tree_json_bak = Absent
    /\ saved_tree = NoTree
    /\ phase = "building"
    /\ HandlerIdle
    /\ SideIdle

\* agent.process_folder(path)
ProcessFolder ==
    /\ steps < MaxSteps
    /\ \E folder \in Folders :
          \E r \in {process_folder_ingest(tree, folder, next_id, config)} :
          \E node_order \in Orders(tech_nodes(r.tree)),
             tech_order \in Orders(all_techs(r.tree)) :
          \E f \in {process_folder_finish(r, config, node_order, tech_order)} :
              /\ tree' = f.tree
              /\ next_id' = f.nid
              /\ last_op' = [op |-> "process_folder", ok |-> f.status = "ok",
                             id |-> f.root_node_id, status |-> f.status,
                             folder |-> folder.path, errors |-> f.errors,
                             files_processed |-> f.files_processed,
                             nodes_created |-> f.nodes_created]
    /\ steps' = steps + 1
    /\ UNCHANGED <<sideVars, handlerVars, config, storeVars>>

\* agent.tree_mut().remove(id)
RemoveNode ==
    /\ steps < MaxSteps
    /\ \E id \in 1..(next_id - 1) :
          /\ tree' = remove(tree, id)
          /\ last_op' = Op("remove", id \in DOMAIN tree.nodes, id)
    /\ steps' = steps + 1
    /\ UNCHANGED <<sideVars, handlerVars, next_id, config, storeVars>>

AgentNext ==
    \/ ProcessFolder
    \/ RemoveNode

AgentSpec == AgentInit /\ [][AgentNext]_vars

----------------------------------------------------------------------------
(* The store: a tree is built, saved, and loaded again at the next start *)

\* Largest number of loads in one behaviour.
MaxLoads == 1

\* store.save(tree) up to the point where fs::write has opened tree.json:
\* the backup is copied, the tree serialized, the file truncated.
SaveBegin ==
    /\ phase \in {"building", "running"}
    /\ tree_json_bak' = IF tree_json.kind # "absent" THEN tree_json ELSE tree_json_bak
    /\ IF has_valid_root(tree)
       THEN /\ tree_json' = Partial
            /\ saved_tree' = tree
            /\ phase' = "writing"
            /\ last_op' = Op("save_begin", TRUE, NoId)
       ELSE /\ phase' = "running"
            /\ last_op' = Op("save_panic", FALSE, NoId)
            /\ UNCHANGED <<sideVars, tree_json, saved_tree>>
    /\ UNCHANGED <<sideVars, handlerVars, tree, next_id, agentVars>>

\* fs::write completes: save returns Ok
SaveFinish ==
    /\ phase = "writing"
    /\ tree_json' = from_tree(saved_tree)
    /\ phase' = "running"
    /\ last_op' = Op("save", TRUE, NoId)
    /\ UNCHANGED <<sideVars, handlerVars, tree, next_id, agentVars, tree_json_bak, saved_tree>>

\* fs::write fails part-way (an I/O error): save returns the error
SaveFail ==
    /\ phase = "writing"
    /\ phase' = "running"
    /\ saved_tree' = NoTree
    /\ last_op' = Op("save", FALSE, NoId)
    /\ UNCHANGED <<sideVars, handlerVars, tree, next_id, agentVars, tree_json, tree_json_bak>>

\* the process is interrupted inside fs::write
Crash ==
    /\ phase = "writing"
    /\ phase' = "stopped"
    /\ saved_tree' = NoTree
    /\ last_op' = Op("crash", TRUE, NoId)
    /\ UNCHANGED <<sideVars, handlerVars, tree, next_id, agentVars, tree_json, tree_json_bak>>

\* the process exits
Stop ==
    /\ phase \in {"building", "running"}
    /\ phase' = "stopped"
    /\ last_op' = Op("stop", TRUE, NoId)
    /\ UNCHANGED <<sideVars, handlerVars, tree, next_id, agentVars, tree_json, tree_json_bak, saved_tree>>

\* tree.json is damaged while no process runs: the root's entry is lost
Damage ==
    /\ phase = "stopped"
    /\ tree_json.kind = "data"
    /\ tree_json.root_id \in DOMAIN tree_json.nodes
    /\ tree_json' = [tree_json EXCEPT !.nodes = MapRemove(@, tree_json.root_id)]
    /\ saved_tree' = NoTree
    /\ last_op' = Op("damage", TRUE, NoId)
    /\ UNCHANGED <<sideVars, handlerVars, tree, next_id, agentVars, tree_json_bak, phase>>

\* store.load() at the start of a process (ContextHandler::new); the loaded
\* tree becomes the agent's tree. The two trees ContextTree::new() can make
\* inside load take the ids next_id and next_id + 1.
Load ==
    /\ phase = "stopped"
    /\ steps < MaxLoads
    /\ \E order \in Orders(DOMAIN tree_json.nodes) :
          LET r == load(tree_json, next_id, order) IN
          /\ tree' = IF r.ok THEN r.tree ELSE tree
          /\ phase' = IF r.ok THEN "loaded" ELSE "stopped"
          /\ last_op' = Op("load", r.ok, NoId)
    /\ next_id' = next_id + 2
    /\ steps' = steps + 1
    /\ UNCHANGED <<sideVars, handlerVars, config, tree_json, tree_json_bak, saved_tree>>

\* agent.tree_mut().ensure_root() after the load
StartupEnsureRoot ==
    /\ phase = "loaded"
    /\ tree' = ensure_root(tree, next_id)
    /\ next_id' = IF has_valid_root(tree) THEN next_id ELSE next_id + 1
    /\ phase' = "running"
    /\ last_op' = Op("startup", TRUE, tree'.root_id)
    /\ UNCHANGED <<sideVars, handlerVars, agentVars, tree_json, tree_json_bak, saved_tree>>

StoreNext ==
    \/ phase = "building" /\ Remove
    \/ phase = "building" /\ AddChild
    \/ phase = "building" /\ EnsureDomain
    \/ phase = "building" /\ BuildCrossLinks
    \/ SaveBegin
    \/ SaveFinish
    \/ SaveFail
    \/ Crash
    \/ Stop
    \/ Damage
    \/ Load
    \/ StartupEnsureRoot

StoreSpec == Init /\ [][StoreNext]_vars

----------------------------------------------------------------------------
(* The handler: every request runs on a task of its own; the agent sits     *)
(* behind a tokio RwLock. A guard lives until the function returns unless   *)
(* it is dropped before. The queue of the lock is not modelled: a waiting   *)
(* task may take the lock whenever it is free for it.                       *)

FolderAt(path) == CHOOSE f \in Folders : f.path = path

Notify(t, kind, path, files_processed, nodes_created) ==
    Append(notifications, [task |-> t, kind |-> kind, path |-> path,
                           files_processed |-> files_processed,
                           nodes_created |-> nodes_created])

\* index_directory is called: the Starting notification is sent and the task
\* reaches self.agent.write().await
IndexCall(t) ==
    /\ pc[t] = "idle"
    /\ \E folder \in Folders :
          /\ req' = [req EXCEPT ![t] = [kind |-> "index_directory", path |-> folder.path]]
          /\ notifications' = Notify(t, "Starting", folder.path, 0, 0)
    /\ pc' = [pc EXCEPT ![t] = "write_await"]
    /\ UNCHANGED <<sideVars, treeVars, agentVars, storeVars, res, writer, readers>>

\* self.agent.write().await returns the write guard
IndexAcquireWrite(t) ==
    /\ pc[t] = "write_await"
    /\ writer = NoTask
    /\ readers = {}
    /\ writer' = t
    /\ pc' = [pc EXCEPT ![t] = "process_folder"]
    /\ UNCHANGED <<sideVars, treeVars, agentVars, storeVars, req, res, readers, notifications>>

\* agent.process_folder(&path_buf).await and the match on its result: an Err
\* sends the Error notification and returns, which drops the write guard
IndexProcessFolder(t) ==
    /\ pc[t] = "process_folder"
    /\ \E r \in {process_folder_ingest(tree, FolderAt(req[t].path), next_id, config)} :
       \E node_order \in Orders(tech_nodes(r.tree)),
          tech_order \in Orders(all_techs(r.tree)) :
       \E f \in {process_folder_finish(r, config, node_order, tech_order)} :
           /\ tree' = f.tree
           /\ next_id' = f.nid
           /\ last_op' = Op("process_folder", f.status = "ok", f.root_node_id)
           /\ res' = [res EXCEPT ![t] = [status |-> f.status,
                                         files_processed |-> f.files_processed,
                                         nodes_created |-> f.nodes_created]]
           /\ pc' = [pc EXCEPT ![t] = CASE f.status = "ok" -> "save"
                                        [] f.status = "err" -> "returned_err"
                                        [] OTHER -> "panicked"]
           /\ writer' = IF f.status = "ok" THEN writer ELSE NoTask
           /\ notifications' = IF f.status = "err"
                               THEN Notify(t, "Error", req[t].path, 0, 0)
                               ELSE notifications
    /\ UNCHANGED <<sideVars, agentVars, storeVars, req, readers>>

\* self.store.save(agent.tree()) returns Ok; the task reaches
\* self.agent.read().await with the write guard still alive
IndexSaveOk(t) ==
    /\ pc[t] = "save"
    /\ tree_json_bak' = IF tree_json.kind # "absent" THEN tree_json ELSE tree_json_bak
    /\ IF has_valid_root(tree)
       THEN /\ tree_json' = from_tree(tree)
            /\ saved_tree' = tree
            /\ pc' = [pc EXCEPT ![t] = "read_await"]
            /\ writer' = writer
       ELSE /\ pc' = [pc EXCEPT ![t] = "panicked"]
            /\ writer' = NoTask
            /\ UNCHANGED <<sideVars, tree_json, saved_tree>>
    /\ last_op' = Op("save", has_valid_root(tree), NoId)
    /\ UNCHANGED <<sideVars, tree, next_id, agentVars, phase, req, res, readers, notifications>>

\* self.store.save(agent.tree()) returns Err (fs::write fails): the function
\* returns the error, which drops the write guard
IndexSaveErr(t) ==
    /\ pc[t] = "save"
    /\ has_valid_root(tree)
    /\ tree_json_bak' = IF tree_json.kind # "absent" THEN tree_json ELSE tree_json_bak
    /\ tree_json' = Partial
    /\ saved_tree' = NoTree
    /\ pc' = [pc EXCEPT ![t] = "returned_err"]
    /\ writer' = NoTask
    /\ last_op' = Op("save", FALSE, NoId)
    /\ UNCHANGED <<sideVars, tree, next_id, agentVars, phase, req, res, readers, notifications>>

\* query_context is called: the task reaches self.agent.read().await
QueryCall(t) ==
    /\ pc[t] = "idle"
    /\ req' = [req EXCEPT ![t] = [kind |-> "query_context", path |-> NoPath]]
    /\ pc' = [pc EXCEPT ![t] = "read_await"]
    /\ UNCHANGED <<sideVars, treeVars, agentVars, storeVars, res, writer, readers, notifications>>

\* self.agent.read().await returns a read guard, in index_directory and in
\* query_context: no task holds the write guard
AcquireRead(t) ==
    /\ pc[t] = "read_await"
    /\ writer = NoTask
    /\ readers' = readers \cup {t}
    /\ pc' = [pc EXCEPT ![t] = "reading"]
    /\ UNCHANGED <<sideVars, treeVars, agentVars, storeVars, req, res, writer, notifications>>

\* The rest of the function after the read guard is taken. index_directory
\* drops it, sends the complete notification with the counts and returns
\* {started, path}; query_context returns its nodes. The return drops every
\* guard of the task.
Return(t) ==
    /\ pc[t] = "reading"
    /\ readers' = readers \ {t}
    /\ writer' = IF writer = t THEN NoTask ELSE writer
    /\ notifications' = IF req[t].kind = "index_directory"
                        THEN Notify(t, "Complete", req[t].path,
                                    res[t].files_processed, res[t].nodes_created)
                        ELSE notifications
    /\ pc' = [pc EXCEPT ![t] = "returned_ok"]
    /\ UNCHANGED <<sideVars, treeVars, agentVars, storeVars, req, res>>

\* The steps of a task other than process_folder
TaskStep(t) ==
    \/ IndexCall(t)
    \/ IndexAcquireWrite(t)
    \/ IndexSaveOk(t)
    \/ IndexSaveErr(t)
    \/ QueryCall(t)
    \/ AcquireRead(t)
    \/ Return(t)

HandlerNext ==
    \/ \E t \in Tasks : IndexCall(t)
    \/ \E t \in Tasks : IndexAcquireWrite(t)
    \/ \E t \in Tasks : IndexProcessFolder(t)
    \/ \E t \in Tasks : IndexSaveOk(t)
    \/ \E t \in Tasks : IndexSaveErr(t)
    \/ \E t \in Tasks : QueryCall(t)
    \/ \E t \in Tasks : AcquireRead(t)
    \/ \E t \in Tasks : Return(t)

HandlerSpec == Init /\ [][HandlerNext]_vars

\* The runtime runs every task that can take a step, and process_folder
\* returns: IndexProcessFolder(t) is enabled exactly while pc[t] is
\* "process_folder", so no task stays there forever.
FairHandlerSpec ==
    /\ HandlerSpec
    /\ \A t \in Tasks : WF_vars(TaskStep(t))
    /\ \A t \in Tasks : []<>(pc[t] # "process_folder")

----------------------------------------------------------------------------
(* Properties of the tree *)

NodeIds == DOMAIN tree.nodes

\* C1: parent/child consistency (I2): for every node parent of the tree, an id
\* c is in parent.children if and only if c is a node whose parent_id is
\* parent.id.
ParentChildConsistent ==
    \A p \in NodeIds : \A c \in 1..(next_id - 1) :
        SeqContains(tree.nodes[p].children, c)
            <=> (c \in NodeIds /\ tree.nodes[c].parent_id = p)

\* C2: depth correctness (I3): every node's depth is the length of its
\* ancestry minus one, the root's depth is 0 and every other node's depth is
\* its parent's depth plus one.
DepthCorrect ==
    \A n \in NodeIds :
        /\ tree.nodes[n].depth = Len(get_ancestry(tree, n)) - 1
        /\ tree.nodes[n].parent_id \in NodeIds =>
              tree.nodes[n].depth = tree.nodes[tree.nodes[n].parent_id].depth + 1

\* C3: index soundness (I4, I5): every path of path_index refers to a node of
\* the tree that has that path, and every name of domain_index refers to a
\* node of the tree that is a Domain and has that name case-insensitively.
IndexSound ==
    /\ \A p \in DOMAIN tree.path_index :
          /\ tree.path_index[p] \in NodeIds
          /\ tree.nodes[tree.path_index[p]].path = p
    /\ \A d \in DOMAIN tree.domain_index :
          /\ tree.domain_index[d] \in NodeIds
          /\ tree.nodes[tree.domain_index[d]].node_type = "Domain"
          /\ to_lowercase(tree.nodes[tree.domain_index[d]].name) = d

RootIds == {n \in NodeIds : tree.nodes[n].node_type = "Root"}

\* C5: exactly one node has type Root, and its id is root_id (I1).
ExactlyOneRoot == RootIds = {tree.root_id}

\* A remove of a node of the tree has just returned while both indices hold
\* entries.
IndexSoundWitness ==
    /\ last_op.op = "remove" /\ last_op.ok
    /\ DOMAIN tree.path_index # {}
    /\ DOMAIN tree.domain_index # {}

\* C4: path_index[p] = n if and only if tree[n].path = p (I4): every node of
\* the tree that has a path is the node get_by_path returns for that path.
PathIndexExact ==
    \A n \in NodeIds :
        tree.nodes[n].path # NoPath => get_by_path(tree, tree.nodes[n].path) = n

----------------------------------------------------------------------------
(* Properties of the store *)

\* A load has just returned a tree rebuilt from the file of the last save.
LoadedSaved == phase = "loaded" /\ saved_tree # NoTree

\* C6: after load() of a file written by save(tree) the rebuilt tree's root_id
\* is the saved root's id and that node is present, and after the ensure_root()
\* call that follows the load exactly one node is a Root and it is root_id.
LoadRestoresRoot ==
    /\ LoadedSaved =>
          /\ tree.root_id = saved_tree.root_id
          /\ tree.root_id \in NodeIds
    /\ (last_op.op = "startup" /\ saved_tree # NoTree
            /\ Cardinality({n \in DOMAIN saved_tree.nodes :
                               saved_tree.nodes[n].node_type = "Root"}) = 1) =>
          ExactlyOneRoot

\* The nodes of the loaded tree are the nodes of the saved tree, field by
\* field: node_count, per-node fields, order of children and of related_nodes.
NodesRoundTrip ==
    /\ Cardinality(NodeIds) = Cardinality(DOMAIN saved_tree.nodes)
    /\ tree.nodes = saved_tree.nodes

DomainNodeNames(t) ==
    {to_lowercase(t.nodes[n].name) :
        n \in {m \in DOMAIN t.nodes : t.nodes[m].node_type = "Domain"}}

SaveAtomic ==
    (last_op.op = "crash" \/ (last_op.op = "save" /\ ~last_op.ok)) =>
        tree_json.kind # "partial"

\* C9: load() never returns an error, whatever tree.json holds.
LoadNeverFails == last_op.op = "load" => last_op.ok

----------------------------------------------------------------------------
(* Properties of the handler *)

Completed(t) ==
    /\ pc[t] = "returned_ok"
    /\ \E i \in DOMAIN notifications :
          /\ notifications[i].task = t
          /\ notifications[i].kind = "Complete"
          /\ notifications[i].files_processed = res[t].files_processed
          /\ notifications[i].nodes_created = res[t].nodes_created

\* C10: every index_directory call whose process_folder and save succeeded
\* eventually sends the complete notification with the counts and returns;
\* it does not wait forever for the lock of the agent.
IndexCompletes ==
    \A t \in Tasks :
        (req[t].kind = "index_directory" /\ pc[t] = "read_await") ~> Completed(t)

\* C11: an index_directory call that returned an error after its Starting
\* notification (process_folder failed or the save failed) has sent an Error
\* notification before.
ErrorNotified ==
    \A t \in Tasks :
        (req[t].kind = "index_directory" /\ pc[t] = "returned_err") =>
            \E i \in DOMAIN notifications :
                /\ notifications[i].task = t
                /\ notifications[i].kind = "Error"

----------------------------------------------------------------------------
(* Properties of the agent *)

\* C12: process_folder on a path that does not exist returns an error and
\* leaves the tree (nodes, indices, root summary) as it was.
MissingPathNoMutation ==
    [][(last_op'.op = "process_folder" /\ last_op'.folder = FolderMissing.path) =>
          (~last_op'.ok /\ tree' = tree)]_vars

\* process_folder on the missing path has returned on a tree that holds
\* nodes of an earlier folder.
MissingPathWitness ==
    /\ last_op.op = "process_folder"
    /\ last_op.folder = FolderMissing.path
    /\ Cardinality(NodeIds) > 1

\* C13: when one file of a folder cannot be processed and the project node
\* was created, process_folder returns success, the failure is listed in
\* ProcessingResult.errors and the files after it are in the tree.
FileErrorsCaptured ==
    (last_op.op = "process_folder" /\ last_op.folder = FolderNotes.path
        /\ last_op.id # NoId /\ config.max_files_per_folder >= Len(FolderNotes.entries)) =>
        /\ last_op.status = "ok"
        /\ last_op.errors = <<"/notes/locked.md">>
        /\ \E n \in NodeIds :
              /\ tree.nodes[n].node_type = "Document"
              /\ tree.nodes[n].path = "/notes/cake.md"
              /\ tree.nodes[n].parent_id = last_op.id

----------------------------------------------------------------------------
(* Properties of cross links, children and the optimizer *)

\* b is above a: on the parent_id chain of a, or a is reached from b through
\* children lists.
Above(a, b) ==
    /\ a # b
    /\ \/ SeqContains(get_ancestry(tree, a), b)
       \/ SeqContains(get_descendants(tree, b), a)

NoSelfLinks ==
    \A n \in NodeIds : ~SeqContains(tree.nodes[n].related_nodes, n)

\* build_cross_links has returned on a tree where a node carries the same
\* technology twice (after a compression).
NoSelfLinksWitness ==
    /\ last_op.op = "build_cross_links"
    /\ \E n \in NodeIds : \E i \in DOMAIN tree.nodes[n].entities :
          count_tech(tree.nodes[n].entities, tree.nodes[n].entities[i]) > 1

\* C16: every id listed in the children of a node is the id of a node of the
\* tree.
NoDanglingChildren ==
    \A n \in NodeIds : \A i \in DOMAIN tree.nodes[n].children :
        tree.nodes[n].children[i] \in NodeIds

\* A node with a parent in the tree has just been removed, and the parent
\* keeps other children.
NoDanglingChildrenWitness ==
    /\ last_op.op = "remove" /\ last_op.ok
    /\ \E n \in NodeIds : tree.nodes[n].children # <<>>

\* C17: after compress_deep_branches with max_depth_threshold = T the
\* max_depth of the tree is at most T.
DepthCapped ==
    last_op.op = "compress" => max_depth(tree) <= last_op.threshold

\* Side condition of C17: compression of a tree whose parent links and depths
\* are consistent leaves no node below the threshold.
DepthCappedWhenConsistent ==
    [][(last_op'.op = "compress" /\ ParentChildConsistent /\ DepthCorrect)
          => max_depth(tree') <= last_op'.threshold]_vars

----------------------------------------------------------------------------
(* Properties of get_ancestry *)

\* C18: every call of get_ancestry returns, also when a parent_id names a
\* node that is not in the tree and when the parent_id references form a cycle.
AncestryTerminates == (walk.pc = "loop") ~> (walk.pc = "done")

----------------------------------------------------------------------------
(* Properties of the embedding cache *)

\* C19: after any sequence of put, remove and clear, and after loading the
\* persisted cache, the cache holds at most max_entries entries.
CacheBounded == Cardinality(DOMAIN cache) <= max_entries

\* C29: a put for a key that is already in the cache replaces the entry of
\* that key and evicts no other entry, also when the cache holds max_entries
\* entries.
PutExistingEvictsNone ==
    (cache_op.op = "put" /\ cache_op.key \in DOMAIN cache_op.before)
    => /\ DOMAIN cache = DOMAIN cache_op.before
       /\ \A k \in DOMAIN cache \ {cache_op.key} : cache[k] = cache_op.before[k]

\* C28: after a node is removed, by remove(id) or by the optimizer, no node
\* that remains in the tree has a related_nodes entry with the id of the
\* removed node: every entry names a node of the tree.
NoLinksToRemoved ==
    \A n \in NodeIds : \A i \in DOMAIN tree.nodes[n].related_nodes :
        tree.nodes[n].related_nodes[i] \in NodeIds

----------------------------------------------------------------------------
(* Properties of the directory watcher *)

\* C20: the notify callback never waits: not for the configuration lock, and
\* not for room in the event channel, also when the channel is full and no
\* consumer drains it.
CallbackNeverWaits ==
    /\ ~(cb.pc = "read" /\ configs_lock.writer)
    /\ ~(cb.pc = "send" /\ Len(channel) >= MaxChannel)

\* C26: while the watcher is running, after any add, remove or update that
\* returned Ok the directories registered with the notify watcher are the
\* configured directories that are enabled and Realtime.
RegisteredMatchesConfigs ==
    (running /\ api.pc = "idle" /\ api.call \in {"add", "remove", "update"}
        /\ api.result = "Ok")
    => watcher.paths = realtime_paths(configs)

\* C27: when update returns an error the configuration stored for the path is
\* the one stored before the call.
UpdateErrorKeepsConfig ==
    (api.pc = "idle" /\ api.call = "update" /\ api.result # "Ok")
    => stored(configs, api.path) = api.before

----------------------------------------------------------------------------
(* Properties of add_child, of the event batch, of file collection and of
   pruning *)

\* C21: add_child on a parent_id that names no node of the tree fails with
\* the ParentNotFound error.
AddChildParentNotFound ==
    (last_op.op = "add_child" /\ ~last_op.ok) => last_op.error = "ParentNotFound"

\* The index of the last event of a path in a sequence of events
last_index(events, path) ==
    CHOOSE i \in DOMAIN events :
        events[i].path = path /\ \A j \in DOMAIN events : events[j].path = path => j <= i

\* C22: deduplicate leaves exactly one event for every path of the batch, and
\* it is the event pushed last for that path.
DeduplicateKeepsLatest ==
    batch_op.op = "deduplicate" =>
        /\ event_paths(batch) = event_paths(batch_op.before)
        /\ \A p \in event_paths(batch_op.before) :
              /\ Cardinality({i \in DOMAIN batch : batch[i].path = p}) = 1
              /\ \E i \in DOMAIN batch :
                    batch[i] = batch_op.before[last_index(batch_op.before, p)]

\* deduplicate has run on a batch in which a path had two different events.
DeduplicateWitness ==
    /\ batch_op.op = "deduplicate"
    /\ \E i \in DOMAIN batch_op.before : \E j \in DOMAIN batch_op.before :
          /\ i < j
          /\ batch_op.before[i].path = batch_op.before[j].path
          /\ batch_op.before[i] # batch_op.before[j]

\* C23: process_folder collects and processes at most max_files_per_folder
\* files, for every limit, 0 included.
FilesLimited ==
    last_op.op = "process_folder" => last_op.files_processed <= config.max_files_per_folder

\* C30: after any sequence of process_folder calls at most one Project node
\* exists for a folder path.
OneProjectPerFolder ==
    \A a \in NodeIds : \A b \in NodeIds :
        (/\ tree.nodes[a].node_type = "Project"
         /\ tree.nodes[b].node_type = "Project"
         /\ tree.nodes[a].path = tree.nodes[b].path) => a = b

\* C24: pruning removes exactly the leaves of type FileReference for which
\* now - last_updated > max_idle_days and access_count < min_access_count.
PruneExact ==
    last_op.op = "prune" =>
        DOMAIN last_op.before.nodes \ DOMAIN tree.nodes =
            {id \in DOMAIN last_op.before.nodes :
                /\ last_op.before.nodes[id].children = <<>>
                /\ last_op.before.nodes[id].node_type = "FileReference"
                /\ last_op.time - ages[id].last_updated > last_op.max_idle_days
                /\ ages[id].access_count < last_op.min_access_count}

\* A pruning has removed a stale leaf and has kept a FileReference leaf whose
\* last_updated is exactly max_idle_days before the time of the call.
PruneWitness ==
    /\ last_op.op = "prune"
    /\ DOMAIN last_op.before.nodes # DOMAIN tree.nodes
    /\ \E id \in NodeIds :
          /\ tree.nodes[id].node_type = "FileReference"
          /\ tree.nodes[id].children = <<>>
          /\ last_op.time - ages[id].last_updated = last_op.max_idle_days
          /\ ages[id].access_count < last_op.min_access_count

----------------------------------------------------------------------------
(* Properties of the sync manager *)

\* C25: while it processes a ContextUpdated event the task never waits for
\* the lock of the sync states while it holds that lock itself.
NoSelfWait ==
    ~(sync.pc \in {"write_states", "resolve_write_states"} /\ states_lock # {})

====
